---- MODULE Spec2Model ----
(***************************************************************************)
(* A model of the LaTeX -> OMML converter: the recursive-descent parser    *)
(* (readTeX), its binary-operator post-pass (fixBinList), the writer's     *)
(* n-ary pre-pass (handleDownup), the node emission (showExp) and the      *)
(* serializer (nodeToString / escapeXml).                                  *)
(*                                                                         *)
(* A string of the program is a sequence of characters; a character is a   *)
(* one-element TLA+ string, and a non-ASCII code point is written by its   *)
(* name ("U+2211").  The cursor `pos` is 0-based as in the source, so the  *)
(* character under the cursor is inp[pos + 1].                             *)
(***************************************************************************)
EXTENDS Integers, Sequences, FiniteSets, TLC

VARIABLES
  input,   \* the text handed to readTeX (Parser.input)
  pc,      \* "init" | "parsed" | "failed" | "written" | "fixed" | "escaped"
  exps,    \* Parser.parse's local `exps`, before the post-pass
  ast,     \* the sequence readTeX returned
  err,     \* ParseError.position, or NoErr when nothing was raised
  cursor,  \* Parser.pos when readTeX returned or raised
  calls,   \* the cursor at each call of parseExpr made by Parser.parse's loop
  dt,      \* the display type handed to writeOMML
  nodes,   \* writeOMML's local `nodes`: the emitted markup nodes
  out      \* the text writeOMML returned

vars == <<input, pc, exps, ast, err, cursor, calls, dt, nodes, out>>

\* ------------------------------------------------------------------------
\* Characters
\* ------------------------------------------------------------------------

NoErr == -1
EOF == "EOF"
BS == "\\"

Lower == {"a","b","c","d","e","f","g","h","i","j","k","l","m",
          "n","o","p","q","r","s","t","u","v","w","x","y","z"}
Upper == {"A","B","C","D","E","F","G","H","I","J","K","L","M",
          "N","O","P","Q","R","S","T","U","V","W","X","Y","Z"}
Letter == Lower \cup Upper
Digit == {"0","1","2","3","4","5","6","7","8","9"}
Whitespace == {" ", "\n", "\t"}
WordChar == Letter \cup Digit \cup {"_"}

Null == [type |-> "null"]

\* ------------------------------------------------------------------------
\* Results of a parsing procedure: the value (or "nothing"), the cursor it
\* leaves, and the position of a raised ParseError.
\* ------------------------------------------------------------------------

Ok(v, p)  == [val |-> v,    pos |-> p, err |-> NoErr, nul |-> FALSE]
None(p)   == [val |-> Null, pos |-> p, err |-> NoErr, nul |-> TRUE]
Throw(p)  == [val |-> Null, pos |-> p, err |-> p,     nul |-> TRUE]
Raised(r) == r.err # NoErr

\* ------------------------------------------------------------------------
\* Cursor primitives
\* ------------------------------------------------------------------------

peek(inp, pos) == IF pos >= Len(inp) THEN EOF ELSE inp[pos + 1]

substring(inp, start, end) == SubSeq(inp, start + 1, end)

RECURSIVE skipWhitespace(_, _)
skipWhitespace(inp, pos) ==
  IF pos < Len(inp) /\ inp[pos + 1] \in Whitespace
    THEN skipWhitespace(inp, pos + 1)
    ELSE pos

RECURSIVE skipToEol(_, _)
skipToEol(inp, pos) ==
  IF peek(inp, pos) # "\n" /\ peek(inp, pos) # EOF
    THEN skipToEol(inp, pos + 1)
    ELSE pos

RECURSIVE skipIgnorable(_, _)
skipIgnorable(inp, pos) ==
  LET p == skipWhitespace(inp, pos)
  IN IF peek(inp, p) = "%"
       THEN LET q == skipToEol(inp, p)
            IN skipIgnorable(inp, IF peek(inp, q) = "\n" THEN q + 1 ELSE q)
       ELSE p

\* match(str): TRUE when the input at the cursor starts with str
matches(inp, pos, str) ==
  /\ pos + Len(str) <= Len(inp)
  /\ SubSeq(inp, pos + 1, pos + Len(str)) = str

RECURSIVE lettersEnd(_, _)
lettersEnd(inp, pos) ==
  IF peek(inp, pos) \in Letter THEN lettersEnd(inp, pos + 1) ELSE pos

\* A control sequence as a TLA+ string, so that it can be looked up by name.
RECURSIVE Str(_)
Str(s) == IF Len(s) = 0 THEN "" ELSE Head(s) \o Str(Tail(s))

NoCmd == ""

\* readControlSequence as it would be if the character after the backslash
\* were consumed without looking whether there is one
readControlSequence_pastEnd(inp, pos) ==
  IF peek(inp, pos) # BS THEN [cmd |-> NoCmd, pos |-> pos]
  ELSE LET start == pos + 1
           firstChar == peek(inp, start)
       IN IF firstChar \notin Letter
            THEN [cmd |-> IF firstChar = EOF THEN NoCmd ELSE BS \o firstChar, pos |-> start + 1]
            ELSE LET e == lettersEnd(inp, start)
                 IN IF e = start
                      THEN [cmd |-> NoCmd, pos |-> e]
                      ELSE [cmd |-> BS \o Str(substring(inp, start, e)), pos |-> e]

\* readControlSequence: [cmd, pos]; cmd = NoCmd is the source's null
readControlSequence(inp, pos) ==
  IF peek(inp, pos) # BS THEN [cmd |-> NoCmd, pos |-> pos]
  ELSE LET start == pos + 1
           firstChar == peek(inp, start)
       IN IF firstChar # EOF /\ firstChar \notin Letter
            THEN [cmd |-> BS \o firstChar, pos |-> start + 1]
            ELSE LET e == lettersEnd(inp, start)
                 IN IF e = start
                      THEN [cmd |-> NoCmd, pos |-> e]
                      ELSE [cmd |-> BS \o Str(substring(inp, start, e)), pos |-> e]

\* ------------------------------------------------------------------------
\* The AST (type Exp): one record shape per variant
\* ------------------------------------------------------------------------

ENumber(v)          == [type |-> "ENumber", value |-> v]
EGrouped(es)        == [type |-> "EGrouped", value |-> es]
EDelimited(o, c, l) == [type |-> "EDelimited", open |-> o, close |-> c, content |-> l]
EIdentifier(v)      == [type |-> "EIdentifier", value |-> v]
EMathOperator(v)    == [type |-> "EMathOperator", value |-> v]
ESymbol(t, v)       == [type |-> "ESymbol", symbolType |-> t, value |-> v]
ESpace(w)           == [type |-> "ESpace", width |-> w]
ESub(b, s)          == [type |-> "ESub", base |-> b, subscript |-> s]
ESuper(b, s)        == [type |-> "ESuper", base |-> b, superscript |-> s]
ESubsup(b, s, t)    == [type |-> "ESubsup", base |-> b, subscript |-> s, superscript |-> t]
EOver(c, b, o)      == [type |-> "EOver", convertible |-> c, base |-> b, over |-> o]
EUnder(c, b, u)     == [type |-> "EUnder", convertible |-> c, base |-> b, under |-> u]
EUnderover(c, b, u, o) ==
  [type |-> "EUnderover", convertible |-> c, base |-> b, under |-> u, over |-> o]
EPhantom(e)         == [type |-> "EPhantom", value |-> e]
EBoxed(e)           == [type |-> "EBoxed", value |-> e]
ECancel(s, e)       == [type |-> "ECancel", strokeType |-> s, value |-> e]
EFraction(t, n, d)  == [type |-> "EFraction", fractionType |-> t, numerator |-> n, denominator |-> d]
ERoot(i, b)         == [type |-> "ERoot", index |-> i, base |-> b]
ESqrt(e)            == [type |-> "ESqrt", value |-> e]
EScaled(s, e)       == [type |-> "EScaled", scale |-> s, value |-> e]
EArray(a, l)        == [type |-> "EArray", alignments |-> a, lines |-> l]
EText(t, v)         == [type |-> "EText", textType |-> t, value |-> v]
EStyled(t, es)      == [type |-> "EStyled", textType |-> t, value |-> es]

\* InEDelimited
Left(v)  == [type |-> "Left", value |-> v]
Right(e) == [type |-> "Right", value |-> e]

IsSym(e, classes) == e.type = "ESymbol" /\ e.symbolType \in classes

\* ------------------------------------------------------------------------
\* The command tables (module ./commands).  A width is kept in 1/100 em.
\* ------------------------------------------------------------------------

SymbolCmds ==
  {"\\sum", "\\int", "\\prod", "\\alpha", "\\pi", "\\pm", "\\times", "\\leq",
   "\\to", "\\infty", "\\hat", "\\overline", "\\underline", "\\overbrace",
   "\\underbrace", "\\lim", "\\sin", "\\Gamma", "\\,"}

symbols(cmd) ==
  CASE cmd = "\\sum"        -> ESymbol("Op", <<"U+2211">>)
    [] cmd = "\\int"        -> ESymbol("Op", <<"U+222B">>)
    [] cmd = "\\prod"       -> ESymbol("Op", <<"U+220F">>)
    [] cmd = "\\alpha"      -> EIdentifier(<<"U+03B1">>)
    [] cmd = "\\pi"         -> EIdentifier(<<"U+03C0">>)
    [] cmd = "\\Gamma"      -> EIdentifier(<<"U+0393">>)
    [] cmd = "\\pm"         -> ESymbol("Bin", <<"U+00B1">>)
    [] cmd = "\\times"      -> ESymbol("Bin", <<"U+00D7">>)
    [] cmd = "\\leq"        -> ESymbol("Rel", <<"U+2264">>)
    [] cmd = "\\to"         -> ESymbol("Rel", <<"U+2192">>)
    [] cmd = "\\infty"      -> ESymbol("Ord", <<"U+221E">>)
    [] cmd = "\\hat"        -> ESymbol("Accent", <<"U+0302">>)
    [] cmd = "\\overline"   -> ESymbol("TOver", <<"U+00AF">>)
    [] cmd = "\\underline"  -> ESymbol("TUnder", <<"_">>)
    [] cmd = "\\overbrace"  -> ESymbol("TOver", <<"U+23DE">>)
    [] cmd = "\\underbrace" -> ESymbol("TUnder", <<"U+23DF">>)
    [] cmd = "\\lim"        -> EMathOperator(<<"l", "i", "m">>)
    [] cmd = "\\sin"        -> EMathOperator(<<"s", "i", "n">>)
    [] cmd = "\\,"          -> ESpace(17)

\* keys of `operators` that are one character long
OperatorChars == {"+", "-", "*", "=", "<", ">", ",", ";", ":", "!", "/", ".", "'"}

operators(op) ==
  CASE op = <<"+">> -> ESymbol("Bin", <<"+">>)
    [] op = <<"-">> -> ESymbol("Bin", <<"U+2212">>)
    [] op = <<"*">> -> ESymbol("Bin", <<"*">>)
    [] op = <<"=">> -> ESymbol("Rel", <<"=">>)
    [] op = <<"<">> -> ESymbol("Rel", <<"<">>)
    [] op = <<">">> -> ESymbol("Rel", <<">">>)
    [] op = <<":">> -> ESymbol("Rel", <<":">>)
    [] op = <<",">> -> ESymbol("Pun", <<",">>)
    [] op = <<";">> -> ESymbol("Pun", <<";">>)
    [] op = <<"!">> -> ESymbol("Ord", <<"!">>)
    [] op = <<"/">> -> ESymbol("Ord", <<"/">>)
    [] op = <<".">> -> ESymbol("Ord", <<".">>)
    [] op = <<"'">> -> ESymbol("Ord", <<"U+2032">>)
    [] op = <<"'", "'">> -> ESymbol("Ord", <<"U+2033">>)
    [] op = <<"'", "'", "'">> -> ESymbol("Ord", <<"U+2034">>)
    [] op = <<"'", "'", "'", "'">> -> ESymbol("Ord", <<"U+2057">>)

\* keys of `enclosures`: single characters and control sequences
EnclosureChars == {"(", ")", "[", "]", "|"}
EnclosureCmds == {"\\{", "\\}", "\\langle", "\\rangle", "\\|"}

enclosures(key) ==
  CASE key = "("         -> ESymbol("Open", <<"(">>)
    [] key = ")"         -> ESymbol("Close", <<")">>)
    [] key = "["         -> ESymbol("Open", <<"[">>)
    [] key = "]"         -> ESymbol("Close", <<"]">>)
    [] key = "|"         -> ESymbol("Op", <<"|">>)
    [] key = "\\{"       -> ESymbol("Open", <<"{">>)
    [] key = "\\}"       -> ESymbol("Close", <<"}">>)
    [] key = "\\langle"  -> ESymbol("Open", <<"U+27E8">>)
    [] key = "\\rangle"  -> ESymbol("Close", <<"U+27E9">>)
    [] key = "\\|"       -> ESymbol("Op", <<"U+2225">>)

StyleCmds == {"\\mathbf", "\\mathrm", "\\mathit", "\\mathbb"}

styleOps(cmd, content) ==
  CASE cmd = "\\mathbf" -> EStyled("TextBold", content)
    [] cmd = "\\mathrm" -> EStyled("TextNormal", content)
    [] cmd = "\\mathit" -> EStyled("TextItalic", content)
    [] cmd = "\\mathbb" -> EStyled("TextDoubleStruck", content)

TextCmds == {"\\text", "\\textbf", "\\mbox"}

textOps(cmd, text) ==
  CASE cmd = "\\text"   -> EText("TextNormal", text)
    [] cmd = "\\mbox"   -> EText("TextNormal", text)
    [] cmd = "\\textbf" -> EText("TextBold", text)

\* fixBinList: one step of the loop, `result` being what was retained so far
\* fixBinList's loop body as it would be if punctuation before a binary
\* symbol did not reclassify it
fixBinStep_afterPunKept(result, exp) ==
  LET n == Len(result)
      prev == result[n]
      ord == [exp EXCEPT !.symbolType = "Ord"]
  IN IF IsSym(exp, {"Bin"}) THEN
       IF n = 0 THEN Append(result, ord)
       ELSE IF IsSym(prev, {"Bin", "Op", "Rel", "Open"}) THEN Append(result, ord)
       ELSE Append(result, exp)
     ELSE IF IsSym(exp, {"Rel", "Close", "Pun"}) THEN
       IF n > 0 /\ IsSym(prev, {"Bin"})
         THEN Append([result EXCEPT ![n] = [prev EXCEPT !.symbolType = "Ord"]], exp)
         ELSE Append(result, exp)
     ELSE Append(result, exp)

\* fixBinList's loop body as it would be without its second branch
fixBinStep_forwardOnly(result, exp) ==
  LET n == Len(result)
      prev == result[n]
      ord == [exp EXCEPT !.symbolType = "Ord"]
  IN IF IsSym(exp, {"Bin"}) THEN
       IF n = 0 THEN Append(result, ord)
       ELSE IF IsSym(prev, {"Bin", "Op", "Rel", "Open", "Pun"}) THEN Append(result, ord)
       ELSE Append(result, exp)
     ELSE Append(result, exp)

\* fixBinList's loop body as it would be if a binary symbol at the start of
\* the sequence were kept
fixBinStep_firstKept(result, exp) ==
  LET n == Len(result)
      prev == result[n]
      ord == [exp EXCEPT !.symbolType = "Ord"]
  IN IF IsSym(exp, {"Bin"}) THEN
       IF n = 0 THEN Append(result, exp)
       ELSE IF IsSym(prev, {"Bin", "Op", "Rel", "Open", "Pun"}) THEN Append(result, ord)
       ELSE Append(result, exp)
     ELSE IF IsSym(exp, {"Rel", "Close", "Pun"}) THEN
       IF n > 0 THEN
         IF IsSym(prev, {"Bin"})
           THEN Append([result EXCEPT ![n] = [prev EXCEPT !.symbolType = "Ord"]], exp)
           ELSE Append(result, exp)
       ELSE Append(result, exp)
     ELSE Append(result, exp)

fixBinStep(result, exp) ==
  LET n == Len(result)
      prev == result[n]
      ord == [exp EXCEPT !.symbolType = "Ord"]
  IN IF IsSym(exp, {"Bin"}) THEN
       IF n = 0 THEN Append(result, ord)
       ELSE IF IsSym(prev, {"Bin", "Op", "Rel", "Open", "Pun"}) THEN Append(result, ord)
       ELSE Append(result, exp)
     ELSE IF IsSym(exp, {"Rel", "Close", "Pun"}) THEN
       IF n > 0 /\ IsSym(prev, {"Bin"})
         THEN Append([result EXCEPT ![n] = [prev EXCEPT !.symbolType = "Ord"]], exp)
         ELSE Append(result, exp)
     ELSE Append(result, exp)

RECURSIVE fixBinFrom(_, _, _)
fixBinFrom(es, i, result) ==
  IF i > Len(es) THEN result ELSE fixBinFrom(es, i + 1, fixBinStep(result, es[i]))

fixBinList(es) == fixBinFrom(es, 1, <<>>)

\* the grouping of a braced group's elements as it would be if the
\* post-pass were applied to the group's own sequence as well
Wrap_postPassed(es) ==
  IF Len(es) = 0 THEN EGrouped(<<>>)
  ELSE IF Len(es) = 1 THEN fixBinList(es)[1]
  ELSE EGrouped(fixBinList(es))

\* ------------------------------------------------------------------------
\* The parser (class Parser).  Every procedure takes the input and the
\* cursor and returns a result record; a raised ParseError is passed up
\* unchanged by every caller, as no procedure of the source catches it.
\* ------------------------------------------------------------------------

\* The procedures of the parser call one another; a call of one of the
\* procedures of `Call` is written Call("procedure", argument, inp, pos).
RECURSIVE parseExpr(_, _), parseExpr1(_, _), parseInBraces(_, _),
          parseCommand(_, _), parseGroupedExpr(_, _), parseSubSup(_, _, _),
          parseDelimited(_, _), parseEnvironment(_, _), RunInner(_, _, _),
          parseArrayLine(_, _), Call(_, _, _, _)

\* a readBraces that reports the position of the opening brace
readBraces_atOpener(kind, inp, pos) ==
  LET p0 == skipIgnorable(inp, pos)
  IN IF peek(inp, p0) # "{" THEN None(p0)
     ELSE LET r == RunInner(kind, inp, skipIgnorable(inp, p0 + 1))
              p2 == skipIgnorable(inp, r.pos)
          IN IF Raised(r) THEN r
             ELSE IF peek(inp, p2) # "}" THEN Throw(p0)
             ELSE [r EXCEPT !.pos = skipIgnorable(inp, p2 + 1)]

\* readBraces(parser): `kind` names the closure handed over
readBraces(kind, inp, pos) ==
  LET p0 == skipIgnorable(inp, pos)
  IN IF peek(inp, p0) # "{" THEN None(p0)
     ELSE LET r == RunInner(kind, inp, skipIgnorable(inp, p0 + 1))
              p2 == skipIgnorable(inp, r.pos)
          IN IF Raised(r) THEN r
             ELSE IF peek(inp, p2) # "}" THEN Throw(p2)
             ELSE [r EXCEPT !.pos = skipIgnorable(inp, p2 + 1)]

readBrackets(kind, inp, pos) ==
  LET p0 == skipIgnorable(inp, pos)
  IN IF peek(inp, p0) # "[" THEN None(p0)
     ELSE LET r == RunInner(kind, inp, skipIgnorable(inp, p0 + 1))
              p2 == skipIgnorable(inp, r.pos)
          IN IF Raised(r) THEN r
             ELSE IF peek(inp, p2) # "]" THEN Throw(p2)
             ELSE [r EXCEPT !.pos = skipIgnorable(inp, p2 + 1)]

\* the closure of parseInBraces and parseStyleOp: expressions up to "}"
RECURSIVE exprsLoop(_, _, _)
exprsLoop(inp, pos, acc) ==
  IF peek(inp, pos) \in {"}", EOF} THEN Ok(acc, pos)
  ELSE LET r == Call("parseExpr", Null, inp, pos)
       IN IF Raised(r) THEN r
          ELSE IF r.nul THEN Ok(acc, r.pos)
          ELSE exprsLoop(inp, r.pos, Append(acc, r.val))

\* the closure of parseTextOp, parseEnvironment and parseHSpace
RECURSIVE rawEnd(_, _)
rawEnd(inp, pos) ==
  IF peek(inp, pos) \notin {"}", EOF} THEN rawEnd(inp, pos + 1) ELSE pos

RECURSIVE expToText(_)
expToText(exp) ==
  LET RECURSIVE join(_)
      join(es) == IF es = <<>> THEN <<>> ELSE expToText(Head(es)) \o join(Tail(es))
  IN CASE exp.type \in {"EIdentifier", "ENumber", "EMathOperator", "EText", "ESymbol"}
            -> exp.value
       [] exp.type = "EGrouped" -> join(exp.value)
       [] OTHER -> <<>>

\* the closure of parseOperatorName
RECURSIVE opNameLoop(_, _, _)
opNameLoop(inp, pos, acc) ==
  IF peek(inp, pos) \in {"}", EOF} THEN Ok(acc, pos)
  ELSE LET r == Call("parseExpr1", Null, inp, pos)
       IN IF Raised(r) THEN r
          ELSE IF r.nul THEN Ok(acc, r.pos)
          ELSE opNameLoop(inp, r.pos, acc \o expToText(r.val))

RunInner(kind, inp, pos) ==
  CASE kind = "exprs"   -> exprsLoop(inp, pos, <<>>)
    [] kind = "grouped" -> Call("parseGroupedExpr", Null, inp, pos)
    [] kind = "expr1"   -> Call("parseExpr1", Null, inp, pos)
    [] kind = "raw"     -> Ok(substring(inp, pos, rawEnd(inp, pos)), rawEnd(inp, pos))
    [] kind = "opname"  -> opNameLoop(inp, pos, <<>>)
    [] kind = "void"    -> None(pos)

\* the array a closure returned, as parseInBraces / parseGroupedExpr wrap it
Wrap(es) ==
  IF Len(es) = 0 THEN EGrouped(<<>>)
  ELSE IF Len(es) = 1 THEN es[1]
  ELSE EGrouped(es)

parseInBraces(inp, pos) ==
  LET r == Call("readBraces", "exprs", inp, pos)
  IN IF Raised(r) \/ r.nul THEN r ELSE Ok(Wrap(r.val), r.pos)

RECURSIVE digitsEnd(_, _)
digitsEnd(inp, pos) ==
  IF peek(inp, pos) \in Digit THEN digitsEnd(inp, pos + 1) ELSE pos

parseNumber(inp, pos) ==
  LET start == skipIgnorable(inp, pos)
      dotPos == digitsEnd(inp, start)
      hasDigits == dotPos > start
      lone == peek(inp, dotPos) = "." /\ peek(inp, dotPos + 1) \notin Digit /\ ~hasDigits
      end == IF peek(inp, dotPos) # "." THEN dotPos
             ELSE IF peek(inp, dotPos + 1) \in Digit THEN digitsEnd(inp, dotPos + 1)
             ELSE dotPos + 1
      after == skipIgnorable(inp, end)
  IN IF lone THEN None(dotPos)
     ELSE IF end = start THEN None(end)
     ELSE Ok(ENumber(substring(inp, start, after)), after)

parseVariable(inp, pos) ==
  LET p0 == skipIgnorable(inp, pos)
      char == peek(inp, p0)
  IN IF char \in Letter
       THEN Ok(EIdentifier(<<char>>), skipIgnorable(inp, p0 + 1))
       ELSE None(p0)

Primes == << <<"'", "'", "'", "'">>, <<"'", "'", "'">>, <<"'", "'">>, <<"'">> >>

parseOperator(inp, pos) ==
  LET p0 == skipIgnorable(inp, pos)
      hits == {i \in 1..Len(Primes) : matches(inp, p0, Primes[i])}
      first == CHOOSE i \in hits : \A j \in hits : i <= j
      char == peek(inp, p0)
  IN IF hits # {}
       THEN Ok(operators(Primes[first]), skipIgnorable(inp, p0 + Len(Primes[first])))
     ELSE IF char \in OperatorChars
       THEN Ok(operators(<<char>>), skipIgnorable(inp, p0 + 1))
     ELSE None(p0)

parseEnclosure(inp, pos) ==
  LET char == peek(inp, pos)
  IN IF char \in {"(", ")", "[", "]", "|"} /\ char \in EnclosureChars
       THEN Ok(enclosures(char), skipIgnorable(inp, pos + 1))
       ELSE None(pos)

parseExpr1(inp, pos) ==
  LET a == Call("parseInBraces", Null, inp, skipIgnorable(inp, pos))
      b == parseNumber(inp, a.pos)
      c == parseVariable(inp, b.pos)
      d == Call("parseCommand", Null, inp, c.pos)
      e == parseOperator(inp, d.pos)
  IN IF Raised(a) \/ ~a.nul THEN a
     ELSE IF ~b.nul THEN b
     ELSE IF ~c.nul THEN c
     ELSE IF Raised(d) \/ ~d.nul THEN d
     ELSE IF ~e.nul THEN e
     ELSE parseEnclosure(inp, e.pos)

parseExpr(inp, pos) ==
  LET base == Call("parseExpr1", Null, inp, skipIgnorable(inp, pos))
      ss == Call("parseSubSup", base.val, inp, skipIgnorable(inp, base.pos))
  IN IF Raised(base) \/ base.nul THEN base
     ELSE IF Raised(ss) \/ ~ss.nul THEN ss
     ELSE Ok(base.val, ss.pos)

RECURSIVE groupedLoop(_, _, _)
groupedLoop(inp, pos, acc) ==
  IF peek(inp, pos) \in {"}", "]", EOF} THEN Ok(acc, pos)
  ELSE LET r == Call("parseExpr", Null, inp, pos)
           char == peek(inp, r.pos)
       IN IF Raised(r) THEN r
          ELSE IF ~r.nul THEN groupedLoop(inp, r.pos, Append(acc, r.val))
          ELSE IF char \notin {EOF, "}", "]"} THEN groupedLoop(inp, r.pos + 1, acc)
          ELSE Ok(acc, r.pos)

parseGroupedExpr(inp, pos) ==
  LET r == groupedLoop(inp, pos, <<>>)
  IN IF Raised(r) THEN r ELSE Ok(Wrap(r.val), r.pos)

RECURSIVE primesEnd(_, _)
primesEnd(inp, pos) ==
  IF peek(inp, pos) = "'" THEN primesEnd(inp, pos + 1) ELSE pos

primeSymbol(primeCount) ==
  IF primeCount = 1 THEN "U+2032"
  ELSE IF primeCount = 2 THEN "U+2033"
  ELSE IF primeCount = 3 THEN "U+2034"
  ELSE "U+2057"

\* parseSubSup as it would be if "^" then "_" filled the two slots in reading order
parseSubSup_superFirstSwapped(base, inp, pos) ==
  LET p0 == skipIgnorable(inp, pos)
      char == peek(inp, p0)
      \* "_" first
      sub == Call("parseExpr1", Null, inp, skipIgnorable(inp, p0 + 1))
      p2 == skipIgnorable(inp, sub.pos)
      sup2 == Call("parseExpr1", Null, inp, skipIgnorable(inp, p2 + 1))
      \* "^" followed by primes
      q0 == skipIgnorable(inp, p0 + 1)
      q1 == primesEnd(inp, q0)
      psup == ESymbol("Pun", <<primeSymbol(q1 - q0)>>)
      q2 == skipIgnorable(inp, q1)
      psub == Call("parseExpr1", Null, inp, skipIgnorable(inp, q2 + 1))
      \* "^" first
      sup == Call("parseExpr1", Null, inp, q0)
      r2 == skipIgnorable(inp, sup.pos)
      sub2 == Call("parseExpr1", Null, inp, skipIgnorable(inp, r2 + 1))
  IN IF char = "_" THEN
       IF Raised(sub) THEN sub
       ELSE IF sub.nul THEN None(sub.pos)
       ELSE IF peek(inp, p2) = "^" THEN
         IF Raised(sup2) THEN sup2
         ELSE IF ~sup2.nul THEN Ok(ESubsup(base, sub.val, sup2.val), sup2.pos)
         ELSE Ok(ESub(base, sub.val), sup2.pos)
       ELSE Ok(ESub(base, sub.val), p2)
     ELSE IF char = "^" THEN
       IF peek(inp, q0) = "'" THEN
         IF peek(inp, q2) = "_" THEN
           IF Raised(psub) THEN psub
           ELSE IF ~psub.nul THEN Ok(ESubsup(base, psub.val, psup), psub.pos)
           ELSE Ok(ESuper(base, psup), psub.pos)
         ELSE Ok(ESuper(base, psup), q2)
       ELSE IF Raised(sup) THEN sup
       ELSE IF sup.nul THEN None(sup.pos)
       ELSE IF peek(inp, r2) = "_" THEN
         IF Raised(sub2) THEN sub2
         ELSE IF ~sub2.nul THEN Ok(ESubsup(base, sup.val, sub2.val), sub2.pos)
         ELSE Ok(ESuper(base, sup.val), sub2.pos)
       ELSE Ok(ESuper(base, sup.val), r2)
     ELSE None(p0)

parseSubSup(base, inp, pos) ==
  LET p0 == skipIgnorable(inp, pos)
      char == peek(inp, p0)
      \* "_" first
      sub == Call("parseExpr1", Null, inp, skipIgnorable(inp, p0 + 1))
      p2 == skipIgnorable(inp, sub.pos)
      sup2 == Call("parseExpr1", Null, inp, skipIgnorable(inp, p2 + 1))
      \* "^" followed by primes
      q0 == skipIgnorable(inp, p0 + 1)
      q1 == primesEnd(inp, q0)
      psup == ESymbol("Pun", <<primeSymbol(q1 - q0)>>)
      q2 == skipIgnorable(inp, q1)
      psub == Call("parseExpr1", Null, inp, skipIgnorable(inp, q2 + 1))
      \* "^" first
      sup == Call("parseExpr1", Null, inp, q0)
      r2 == skipIgnorable(inp, sup.pos)
      sub2 == Call("parseExpr1", Null, inp, skipIgnorable(inp, r2 + 1))
  IN IF char = "_" THEN
       IF Raised(sub) THEN sub
       ELSE IF sub.nul THEN None(sub.pos)
       ELSE IF peek(inp, p2) = "^" THEN
         IF Raised(sup2) THEN sup2
         ELSE IF ~sup2.nul THEN Ok(ESubsup(base, sub.val, sup2.val), sup2.pos)
         ELSE Ok(ESub(base, sub.val), sup2.pos)
       ELSE Ok(ESub(base, sub.val), p2)
     ELSE IF char = "^" THEN
       IF peek(inp, q0) = "'" THEN
         IF peek(inp, q2) = "_" THEN
           IF Raised(psub) THEN psub
           ELSE IF ~psub.nul THEN Ok(ESubsup(base, psub.val, psup), psub.pos)
           ELSE Ok(ESuper(base, psup), psub.pos)
         ELSE Ok(ESuper(base, psup), q2)
       ELSE IF Raised(sup) THEN sup
       ELSE IF sup.nul THEN None(sup.pos)
       ELSE IF peek(inp, r2) = "_" THEN
         IF Raised(sub2) THEN sub2
         ELSE IF ~sub2.nul THEN Ok(ESubsup(base, sub2.val, sup.val), sub2.pos)
         ELSE Ok(ESuper(base, sup.val), sub2.pos)
       ELSE Ok(ESuper(base, sup.val), r2)
     ELSE None(p0)

parseFrac(fracType, inp, pos) ==
  LET num == Call("readBraces", "grouped", inp, pos)
      den == Call("readBraces", "grouped", inp, num.pos)
  IN IF Raised(num) THEN num
     ELSE IF Raised(den) THEN den
     ELSE IF ~num.nul /\ ~den.nul
       THEN Ok(EFraction(fracType, num.val, den.val), den.pos)
     ELSE None(den.pos)

parseSqrt(inp, pos) ==
  LET index == Call("readBrackets", "grouped", inp, pos)
      braced == Call("readBraces", "grouped", inp, index.pos)
      base == IF braced.nul /\ ~Raised(braced) THEN Call("parseExpr1", Null, inp, braced.pos) ELSE braced
  IN IF Raised(index) THEN index
     ELSE IF Raised(base) THEN base
     ELSE IF base.nul THEN None(base.pos)
     ELSE IF ~index.nul THEN Ok(ERoot(index.val, base.val), base.pos)
     ELSE Ok(ESqrt(base.val), base.pos)

parseOverset(inp, pos) ==
  LET over == Call("readBraces", "expr1", inp, pos)
      base == Call("readBraces", "expr1", inp, over.pos)
  IN IF Raised(over) THEN over
     ELSE IF Raised(base) THEN base
     ELSE IF ~over.nul /\ ~base.nul THEN Ok(EOver(FALSE, base.val, over.val), base.pos)
     ELSE None(base.pos)

parseUnderset(inp, pos) ==
  LET under == Call("readBraces", "expr1", inp, pos)
      base == Call("readBraces", "expr1", inp, under.pos)
  IN IF Raised(under) THEN under
     ELSE IF Raised(base) THEN base
     ELSE IF ~under.nul /\ ~base.nul THEN Ok(EUnder(FALSE, base.val, under.val), base.pos)
     ELSE None(base.pos)

parseStackrel(inp, pos) == parseOverset(inp, pos)

parseDelimiter(inp, pos) ==
  LET p0 == skipIgnorable(inp, pos)
      cs == readControlSequence(inp, p0)
      char == peek(inp, cs.pos)
  IN IF peek(inp, p0) = "." THEN Ok(<<>>, skipIgnorable(inp, p0 + 1))
     ELSE IF cs.cmd # NoCmd /\ cs.cmd \in EnclosureCmds
       THEN Ok(enclosures(cs.cmd).value, skipIgnorable(inp, cs.pos))
     ELSE IF char \in {"(", ")", "[", "]", "|"}
       THEN Ok(<<char>>, skipIgnorable(inp, cs.pos + 1))
     ELSE None(cs.pos)

\* the `while (true)` of parseDelimited: the content and the cursor after it
RECURSIVE delimitedLoop(_, _, _)
delimitedLoop(inp, pos, content) ==
  LET savedPos == skipIgnorable(inp, pos)
      cs == readControlSequence(inp, savedPos)
      delim == parseDelimiter(inp, savedPos)
      r == Call("parseExpr", Null, inp, savedPos)
  IN IF cs.cmd = "\\right" THEN Ok(content, cs.pos)
     ELSE IF cs.cmd = "\\middle" THEN
       delimitedLoop(inp, delim.pos,
                     IF ~delim.nul /\ Len(delim.val) > 0
                       THEN Append(content, Left(delim.val)) ELSE content)
     ELSE IF Raised(r) THEN r
     ELSE IF ~r.nul THEN delimitedLoop(inp, r.pos, Append(content, Right(r.val)))
     ELSE Ok(content, r.pos)

parseDelimited(inp, pos) ==
  LET open == parseDelimiter(inp, pos)
      body == delimitedLoop(inp, open.pos, <<>>)
      close == parseDelimiter(inp, body.pos)
  IN IF open.nul THEN None(open.pos)
     ELSE IF Raised(body) THEN body
     ELSE Ok(EDelimited(open.val, IF close.nul THEN <<>> ELSE close.val, body.val),
             close.pos)

parseTextOp(cmd, inp, pos) ==
  LET text == Call("readBraces", "raw", inp, pos)
  IN IF Raised(text) \/ text.nul THEN text
     ELSE Ok(textOps(cmd, text.val), text.pos)

parseStyleOp(cmd, inp, pos) ==
  LET braced == Call("readBraces", "exprs", inp, pos)
      one == Call("parseExpr1", Null, inp, braced.pos)
      content == IF ~braced.nul THEN braced.val
                 ELSE IF one.nul THEN <<>> ELSE <<one.val>>
      end == IF ~braced.nul THEN braced.pos ELSE one.pos
  IN IF Raised(braced) THEN braced
     ELSE IF braced.nul /\ Raised(one) THEN one
     ELSE IF Len(content) > 0 THEN Ok(styleOps(cmd, content), end)
     ELSE None(end)

parseOperatorName(inp, pos) ==
  LET convertible == peek(inp, pos) = "*"
      name == Call("readBraces", "opname", inp, IF convertible THEN pos + 1 ELSE pos)
  IN IF Raised(name) THEN name
     ELSE IF ~name.nul /\ Len(name.val) > 0 THEN Ok(EMathOperator(name.val), name.pos)
     ELSE None(name.pos)

\* the shared shape of parseBoxed, parsePhantom and parseCancel
bracedOrExpr1(inp, pos) ==
  LET braced == Call("readBraces", "expr1", inp, pos)
  IN IF Raised(braced) \/ ~braced.nul THEN braced ELSE Call("parseExpr1", Null, inp, braced.pos)

parseBoxed(inp, pos) ==
  LET content == bracedOrExpr1(inp, pos)
  IN IF Raised(content) \/ content.nul THEN content
     ELSE Ok(EBoxed(content.val), content.pos)

parsePhantom(inp, pos) ==
  LET content == bracedOrExpr1(inp, pos)
  IN IF Raised(content) \/ content.nul THEN content
     ELSE Ok(EPhantom(content.val), content.pos)

parseCancel(strokeType, inp, pos) ==
  LET content == bracedOrExpr1(inp, pos)
  IN IF Raised(content) \/ content.nul THEN content
     ELSE Ok(ECancel(strokeType, content.val), content.pos)

parseHSpace(inp, pos) ==
  LET width == Call("readBraces", "raw", inp, pos)
  IN IF Raised(width) THEN width
     ELSE IF ~width.nul /\ Len(width.val) > 0 THEN Ok(ESpace(33), width.pos)
     ELSE None(width.pos)

\* the `while (true)` of parseArrayLine
RECURSIVE arrayLineLoop(_, _, _, _)
arrayLineLoop(inp, pos, cells, currentCell) ==
  LET p0 == skipIgnorable(inp, pos)
      cs == readControlSequence(inp, p0)
      r == Call("parseExpr", Null, inp, p0)
  IN IF peek(inp, p0) = "&"
       THEN arrayLineLoop(inp, p0 + 1, Append(cells, currentCell), <<>>)
     ELSE IF matches(inp, p0, <<BS, BS>>) THEN Ok(Append(cells, currentCell), p0 + 2)
     ELSE IF peek(inp, p0) = EOF THEN Ok(Append(cells, currentCell), p0)
     ELSE IF cs.cmd = "\\end" THEN Ok(Append(cells, currentCell), p0)
     ELSE IF Raised(r) THEN r
     ELSE IF ~r.nul THEN arrayLineLoop(inp, r.pos, cells, Append(currentCell, r.val))
     ELSE Ok(cells, r.pos)

parseArrayLine(inp, pos) == arrayLineLoop(inp, pos, <<>>, <<>>)

\* the `while (true)` that parseMatrix and parseAlign share: the lines read
RECURSIVE linesLoop(_, _, _)
linesLoop(inp, pos, lines) ==
  LET savedPos == skipIgnorable(inp, pos)
      cs == readControlSequence(inp, savedPos)
      name == Call("readBraces", "void", inp, cs.pos)
      line == Call("parseArrayLine", Null, inp, savedPos)
      kept == IF Len(line.val) > 0 THEN Append(lines, line.val) ELSE lines
      size == Call("readBrackets", "void", inp, skipIgnorable(inp, line.pos + 2))
  IN IF cs.cmd = "\\end" THEN
       IF Raised(name) THEN name ELSE Ok(lines, name.pos)
     ELSE IF Raised(line) THEN line
     ELSE IF matches(inp, line.pos, <<BS, BS>>) THEN
       IF Raised(size) THEN size ELSE linesLoop(inp, size.pos, kept)
     ELSE Ok(kept, line.pos)

RECURSIVE maxLineLength(_)
maxLineLength(lines) ==
  IF lines = <<>> THEN 0
  ELSE LET m == maxLineLength(Tail(lines))
       IN IF Len(Head(lines)) > m THEN Len(Head(lines)) ELSE m

Includes(s, pat) ==
  \E i \in 0..(Len(s) - Len(pat)) : SubSeq(s, i + 1, i + Len(pat)) = pat

MatrixDelims(envName) ==
  CASE envName = <<"p","m","a","t","r","i","x">> -> <<"(", ")">>
    [] envName = <<"b","m","a","t","r","i","x">> -> <<"[", "]">>
    [] envName = <<"B","m","a","t","r","i","x">> -> <<"{", "}">>
    [] envName = <<"v","m","a","t","r","i","x">> -> <<"|", "|">>
    [] envName = <<"V","m","a","t","r","i","x">> -> <<"U+2225", "U+2225">>
    [] OTHER -> <<>>

parseMatrix(envName, inp, pos) ==
  LET r == linesLoop(inp, pos, <<>>)
      alignments == [i \in 1..maxLineLength(r.val) |-> "AlignCenter"]
      array == EArray(alignments, r.val)
      d == MatrixDelims(envName)
  IN IF Raised(r) THEN r
     ELSE IF d # <<>>
       THEN Ok(EDelimited(<<d[1]>>, <<d[2]>>, <<Right(array)>>), r.pos)
     ELSE Ok(array, r.pos)

\* parseAlign as it would be if the alternation began with left
parseAlign_leftFirst(inp, pos) ==
  LET r == linesLoop(inp, pos, <<>>)
      maxCols == maxLineLength(r.val)
      alignments == [i \in 1..maxCols |->
                       IF (i - 1) % 2 = 0 THEN "AlignLeft" ELSE "AlignRight"]
  IN IF Raised(r) THEN r ELSE Ok(EArray(alignments, r.val), r.pos)

parseAlign(inp, pos) ==
  LET r == linesLoop(inp, pos, <<>>)
      maxCols == maxLineLength(r.val)
      alignments == [i \in 1..maxCols |->
                       IF (i - 1) % 2 = 0 THEN "AlignRight" ELSE "AlignLeft"]
  IN IF Raised(r) THEN r ELSE Ok(EArray(alignments, r.val), r.pos)

parseEnvironment(inp, pos) ==
  LET envName == Call("readBraces", "raw", inp, pos)
      matrix == <<"m","a","t","r","i","x">>
      align == <<"a","l","i","g","n">>
  IN IF Raised(envName) THEN envName
     ELSE IF envName.nul \/ Len(envName.val) = 0 THEN None(envName.pos)
     ELSE IF Includes(envName.val, matrix) \/ envName.val = <<"a","r","r","a","y">>
       THEN parseMatrix(envName.val, inp, envName.pos)
     ELSE IF Includes(envName.val, align)
             \/ envName.val = <<"e","q","n","a","r","r","a","y">>
       THEN parseAlign(inp, envName.pos)
     ELSE None(envName.pos)

parseCommand(inp, pos) ==
  LET cs == readControlSequence(inp, pos)
      cmd == cs.cmd
      p == skipIgnorable(inp, cs.pos)
      sym == symbols(cmd)
      arg == Call("parseExpr1", Null, inp, p)
  IN IF cmd = NoCmd THEN None(cs.pos)
     ELSE IF cmd \in SymbolCmds THEN
       IF IsSym(sym, {"Accent", "TOver", "TUnder"}) THEN
         IF Raised(arg) THEN arg
         ELSE IF arg.nul THEN Ok(sym, arg.pos)
         ELSE IF sym.symbolType = "TUnder"
           THEN Ok(EUnder(FALSE, arg.val, sym), arg.pos)
         ELSE Ok(EOver(FALSE, arg.val, sym), arg.pos)
       ELSE Ok(sym, p)
     ELSE CASE cmd = "\\frac"     -> parseFrac("NormalFrac", inp, p)
            [] cmd = "\\tfrac"    -> parseFrac("InlineFrac", inp, p)
            [] cmd = "\\dfrac"    -> parseFrac("DisplayFrac", inp, p)
            [] cmd = "\\sqrt"     -> parseSqrt(inp, p)
            [] cmd = "\\overset"  -> parseOverset(inp, p)
            [] cmd = "\\underset" -> parseUnderset(inp, p)
            [] cmd = "\\stackrel" -> parseStackrel(inp, p)
            [] cmd = "\\left"     -> parseDelimited(inp, p)
            [] cmd = "\\right"    -> None(p)
            [] cmd \in TextCmds   -> parseTextOp(cmd, inp, p)
            [] cmd \in StyleCmds  -> parseStyleOp(cmd, inp, p)
            [] cmd = "\\operatorname" -> parseOperatorName(inp, p)
            [] cmd = "\\boxed"    -> parseBoxed(inp, p)
            [] cmd = "\\phantom"  -> parsePhantom(inp, p)
            [] cmd = "\\cancel"   -> parseCancel("ForwardSlash", inp, p)
            [] cmd = "\\bcancel"  -> parseCancel("BackSlash", inp, p)
            [] cmd = "\\xcancel"  -> parseCancel("XSlash", inp, p)
            [] cmd = "\\begin"    -> Call("parseEnvironment", Null, inp, p)
            [] cmd = "\\enspace"  -> Ok(ESpace(50), p)
            [] cmd = "\\hspace"   -> parseHSpace(inp, p)
            [] OTHER              -> None(p)

\* a call of a parsing procedure
Call(procedure, argument, inp, pos) ==
  CASE procedure = "parseExpr" -> parseExpr(inp, pos)
    [] procedure = "parseExpr1" -> parseExpr1(inp, pos)
    [] procedure = "parseInBraces" -> parseInBraces(inp, pos)
    [] procedure = "parseGroupedExpr" -> parseGroupedExpr(inp, pos)
    [] procedure = "parseSubSup" -> parseSubSup(argument, inp, pos)
    [] procedure = "readBraces" -> readBraces(argument, inp, pos)
    [] procedure = "readBrackets" -> readBrackets(argument, inp, pos)
    [] procedure = "parseCommand" -> parseCommand(inp, pos)
    [] procedure = "parseEnvironment" -> parseEnvironment(inp, pos)
    [] procedure = "parseArrayLine" -> parseArrayLine(inp, pos)

\* The `while` of Parser.parse: the expressions read, the cursor, a raised
\* error, and `calls`, the cursor at each call of parseExpr the loop made.
\* parseTurn is one turn of it, r being what parseExpr returned.
RECURSIVE parseLoop(_, _, _, _)
\* a turn that steps over what parseExpr could not read
parseTurn_stepsOver(inp, acc, made, r) ==
  IF Raised(r)
    THEN [exps |-> acc, pos |-> r.pos, err |-> r.err, calls |-> made]
  ELSE IF r.nul
    THEN parseLoop(inp, skipIgnorable(inp, r.pos + 1), acc, made)
  ELSE parseLoop(inp, skipIgnorable(inp, r.pos), Append(acc, r.val), made)

parseTurn(inp, acc, made, r) ==
  IF Raised(r)
    THEN [exps |-> acc, pos |-> r.pos, err |-> r.err, calls |-> made]
  ELSE IF r.nul
    THEN [exps |-> acc, pos |-> r.pos, err |-> NoErr, calls |-> made]
  ELSE parseLoop(inp, skipIgnorable(inp, r.pos), Append(acc, r.val), made)

parseLoop(inp, pos, acc, called) ==
  IF peek(inp, pos) = EOF
    THEN [exps |-> acc, pos |-> pos, err |-> NoErr, calls |-> called]
    ELSE parseTurn(inp, acc, Append(called, pos), Call("parseExpr", Null, inp, pos))

parse(inp) == parseLoop(inp, skipIgnorable(inp, 0), <<>>, <<>>)

\* ------------------------------------------------------------------------
\* The writer: markup nodes.  A node is [tag, attrs, children]; attrs is the
\* list of the entries of the source's attribute object, and a child is a
\* node or a text leaf [text |-> s].
\* ------------------------------------------------------------------------

Text(s) == [text |-> s]
IsText(n) == "text" \in DOMAIN n

createNode(tag, attrs, children) ==
  [tag |-> "m:" \o tag, attrs |-> attrs, children |-> children]

createNodeWithVal(tag, val, children) ==
  createNode(tag, << <<"m:val", val>> >>, children)

\* str as it would be if the text stood beside the run properties
str_textBeside(props, text) ==
  createNode("r", <<>>, props \o <<Text(text)>>)

str(props, text) ==
  IF Len(props) = 0
    THEN createNode("r", <<>>, <<createNode("t", <<>>, <<Text(text)>>)>>)
    ELSE createNode("r", <<>>, <<createNode("rPr", <<>>, props),
                                 createNode("t", <<>>, <<Text(text)>>)>>)

TextTypes ==
  {"TextNormal", "TextBold", "TextItalic", "TextMonospace", "TextSansSerif",
   "TextDoubleStruck", "TextScript", "TextFraktur", "TextBoldItalic",
   "TextSansSerifBold", "TextSansSerifBoldItalic", "TextBoldScript",
   "TextBoldFraktur", "TextSansSerifItalic"}

setProps(textType) ==
  LET sty(val) == createNodeWithVal("sty", val, <<>>)
      scr(val) == createNodeWithVal("scr", val, <<>>)
  IN CASE textType = "TextNormal"       -> <<sty(<<"p">>)>>
       [] textType = "TextBold"         -> <<sty(<<"b">>)>>
       [] textType = "TextItalic"       -> <<sty(<<"i">>)>>
       [] textType = "TextMonospace"    -> <<scr(<<"m", "o", "n", "o", "s", "p", "a", "c", "e">>), sty(<<"p">>)>>
       [] textType = "TextSansSerif"    -> <<scr(<<"s", "a", "n", "s", "-", "s", "e", "r", "i", "f">>), sty(<<"p">>)>>
       [] textType = "TextDoubleStruck" -> <<scr(<<"d", "o", "u", "b", "l", "e", "-", "s", "t", "r", "u", "c", "k">>), sty(<<"p">>)>>
       [] textType = "TextScript"       -> <<scr(<<"s", "c", "r", "i", "p", "t">>), sty(<<"p">>)>>
       [] textType = "TextFraktur"      -> <<scr(<<"f", "r", "a", "k", "t", "u", "r">>), sty(<<"p">>)>>
       [] textType = "TextBoldItalic"   -> <<sty(<<"b", "i">>)>>
       [] textType = "TextSansSerifBold" -> <<scr(<<"s", "a", "n", "s", "-", "s", "e", "r", "i", "f">>), sty(<<"b">>)>>
       [] textType = "TextBoldScript"   -> <<scr(<<"s", "c", "r", "i", "p", "t">>), sty(<<"b">>)>>
       [] textType = "TextBoldFraktur"  -> <<scr(<<"f", "r", "a", "k", "t", "u", "r">>), sty(<<"b">>)>>
       [] textType = "TextSansSerifItalic" -> <<scr(<<"s", "a", "n", "s", "-", "s", "e", "r", "i", "f">>), sty(<<"i">>)>>
       [] textType = "TextSansSerifBoldItalic" -> <<scr(<<"s", "a", "n", "s", "-", "s", "e", "r", "i", "f">>), sty(<<"b", "i">>)>>

defaultTo(textType, props) ==
  IF Len(props) = 0 THEN setProps(textType) ELSE props

isBarChar(char) ==
  char \in {<<"U+203E">>, <<"U+00AF">>, <<"U+0304">>, <<"U+0333">>, <<"_">>}

narySymbols ==
  {<<"U+222B">>, <<"U+222C">>, <<"U+222D">>, <<"U+222E">>, <<"U+222F">>,
   <<"U+2230">>, <<"U+220F">>, <<"U+2210">>, <<"U+2211">>}

isNary(exp) ==
  IF exp.type # "ESymbol" THEN FALSE
  ELSE IF exp.symbolType # "Op" THEN FALSE
  ELSE exp.value \in narySymbols

isUppercaseGreek(char) ==
  char \in {<<"U+0393">>, <<"U+0394">>, <<"U+0398">>, <<"U+039B">>, <<"U+039E">>,
            <<"U+03A0">>, <<"U+03A3">>, <<"U+03A5">>, <<"U+03A6">>, <<"U+03A8">>,
            <<"U+03A9">>}

ZWSP == <<"U+200B">>

\* the character an ESpace is written as; widths are in 1/100 em
spaceChar(width) ==
  IF width > 0 /\ width <= 17 THEN <<"U+2009">>
  ELSE IF width > 17 /\ width <= 23 THEN <<"U+2005">>
  ELSE IF width > 23 /\ width <= 28 THEN <<"U+2004">>
  ELSE IF width > 28 /\ width <= 50 THEN <<"U+2004">>
  ELSE IF width > 50 /\ width <= 180 THEN <<"U+2001">>
  ELSE IF width > 180 THEN <<"U+2001", "U+2001">>
  ELSE ZWSP

emptyGroup == EGrouped(<<>>)

makeText(textType, text) ==
  str(<<createNode("nor", <<>>, <<>>)>> \o setProps(textType), text)

RECURSIVE showExp(_, _)

\* es.flatMap(e => showExp(props, e))
RECURSIVE showAll(_, _)
showAll(props, es) ==
  IF es = <<>> THEN <<>> ELSE showExp(props, Head(es)) \o showAll(props, Tail(es))

\* makeNary as it would be if each hide flag were taken from the other limit
makeNary_hideSwapped(props, limLoc, symbol, sub, sup, base) ==
  LET hidden(e) == IF e.type = "EGrouped" THEN Len(e.value) = 0 ELSE FALSE
      subHide == IF hidden(sup) THEN <<"o", "n">> ELSE <<"o", "f", "f">>
      supHide == IF hidden(sub) THEN <<"o", "n">> ELSE <<"o", "f", "f">>
  IN createNode("nary", <<>>, <<
       createNode("naryPr", <<>>, <<
         createNodeWithVal("chr", symbol, <<>>),
         createNodeWithVal("limLoc", limLoc, <<>>),
         createNodeWithVal("subHide", subHide, <<>>),
         createNodeWithVal("supHide", supHide, <<>>)>>),
       createNode("sub", <<>>, showExp(props, sub)),
       createNode("sup", <<>>, showExp(props, sup)),
       createNode("e", <<>>, showExp(props, base))>>)

makeNary(props, limLoc, symbol, sub, sup, base) ==
  LET hidden(e) == IF e.type = "EGrouped" THEN Len(e.value) = 0 ELSE FALSE
      subHide == IF hidden(sub) THEN <<"o", "n">> ELSE <<"o", "f", "f">>
      supHide == IF hidden(sup) THEN <<"o", "n">> ELSE <<"o", "f", "f">>
  IN createNode("nary", <<>>, <<
       createNode("naryPr", <<>>, <<
         createNodeWithVal("chr", symbol, <<>>),
         createNodeWithVal("limLoc", limLoc, <<>>),
         createNodeWithVal("subHide", subHide, <<>>),
         createNodeWithVal("supHide", supHide, <<>>)>>),
       createNode("sub", <<>>, showExp(props, sub)),
       createNode("sup", <<>>, showExp(props, sup)),
       createNode("e", <<>>, showExp(props, base))>>)

\* showFraction as it would be if only the inline style were told apart
showFraction_barUnlessInline(props, fractionType, numerator, denominator) ==
  LET typeVal == IF fractionType = "InlineFrac" THEN <<"l", "i", "n">> ELSE <<"b", "a", "r">>
  IN createNode("f", <<>>, <<
       createNode("fPr", <<>>, <<createNodeWithVal("type", typeVal, <<>>)>>),
       createNode("num", <<>>, showExp(props, numerator)),
       createNode("den", <<>>, showExp(props, denominator))>>)

showFraction(props, fractionType, numerator, denominator) ==
  LET typeVal == IF fractionType = "InlineFrac" THEN <<"l", "i", "n">>
                 ELSE IF fractionType = "NoLineFrac" THEN <<"n", "o", "B", "a", "r">>
                 ELSE <<"b", "a", "r">>
  IN createNode("f", <<>>, <<
       createNode("fPr", <<>>, <<createNodeWithVal("type", typeVal, <<>>)>>),
       createNode("num", <<>>, showExp(props, numerator)),
       createNode("den", <<>>, showExp(props, denominator))>>)

makeArray(props, alignments, lines) ==
  LET alignStr(align) == IF align = "AlignLeft" THEN <<"l", "e", "f", "t">>
                         ELSE IF align = "AlignRight" THEN <<"r", "i", "g", "h", "t">>
                         ELSE <<"c", "e", "n", "t", "e", "r">>
      mc(align) == createNode("mc", <<>>, <<
                     createNode("mcPr", <<>>, <<
                       createNodeWithVal("mcJc", alignStr(align), <<>>),
                       createNodeWithVal("count", <<"1">>, <<>>)>>)>>)
      mProps == createNode("mPr", <<>>, <<
                  createNodeWithVal("baseJc", <<"c", "e", "n", "t", "e", "r">>, <<>>),
                  createNodeWithVal("plcHide", <<"o", "n">>, <<>>),
                  createNode("mcs", <<>>,
                             [i \in 1..Len(alignments) |-> mc(alignments[i])])>>)
      row(line) == createNode("mr", <<>>,
                     [j \in 1..Len(line) |->
                        createNode("e", <<>>, showAll(props, line[j]))])
  IN createNode("m", <<>>, <<mProps>> \o [i \in 1..Len(lines) |-> row(lines[i])])

makeCancel(props, strokeType, exp) ==
  LET fwd == IF strokeType \in {"ForwardSlash", "XSlash"}
               THEN <<createNodeWithVal("strikeBLTR", <<"1">>, <<>>)>> ELSE <<>>
      bwd == IF strokeType \in {"BackSlash", "XSlash"}
               THEN <<createNodeWithVal("strikeTLBR", <<"1">>, <<>>)>> ELSE <<>>
  IN createNode("borderBox", <<>>, <<
       createNode("borderBoxPr", <<>>, <<
         createNodeWithVal("hideTop", <<"1">>, <<>>),
         createNodeWithVal("hideBot", <<"1">>, <<>>),
         createNodeWithVal("hideLeft", <<"1">>, <<>>),
         createNodeWithVal("hideRight", <<"1">>, <<>>)>> \o fwd \o bwd),
       createNode("e", <<>>, showExp(props, exp))>>)

\* the grouping of a region's items as it would be if a separator closed
\* the current group even when that group is empty
RECURSIVE delimitedGroups_emptyKept(_, _, _)
delimitedGroups_emptyKept(content, elements, currentGroup) ==
  IF content = <<>>
    THEN Append(elements, currentGroup)
  ELSE IF Head(content).type = "Left"
    THEN delimitedGroups_emptyKept(Tail(content), Append(elements, currentGroup), <<>>)
  ELSE delimitedGroups_emptyKept(Tail(content), elements,
                                 Append(currentGroup, Head(content).value))

\* case EDelimited: the runs of sub-expression items between separators
RECURSIVE delimitedGroups(_, _, _)
delimitedGroups(content, elements, currentGroup) ==
  IF content = <<>>
    THEN IF Len(currentGroup) > 0 THEN Append(elements, currentGroup) ELSE elements
  ELSE IF Head(content).type = "Left"
    THEN IF Len(currentGroup) > 0
           THEN delimitedGroups(Tail(content), Append(elements, currentGroup), <<>>)
           ELSE delimitedGroups(Tail(content), elements, currentGroup)
  ELSE delimitedGroups(Tail(content), elements, Append(currentGroup, Head(content).value))

showDelimited(props, exp) ==
  LET separators == SelectSeq(exp.content, LAMBDA item : item.type = "Left")
      sepChr == IF Len(separators) > 0 THEN separators[1].value ELSE <<>>
      elements == delimitedGroups(exp.content, <<>>, <<>>)
  IN <<createNode("d", <<>>, <<
         createNode("dPr", <<>>, <<
           createNodeWithVal("begChr", exp.open, <<>>),
           createNodeWithVal("sepChr", sepChr, <<>>),
           createNodeWithVal("endChr", exp.close, <<>>),
           createNode("grow", <<>>, <<>>)>>)>>
         \o [i \in 1..Len(elements) |->
               createNode("e", <<>>, showAll(props, elements[i]))])>>

showSymbol(props, exp) ==
  LET isSymbolOrPunct == /\ Len(exp.value) = 1
                         /\ exp.value[1] \notin WordChar \cup Whitespace
  IN IF isSymbolOrPunct THEN <<str(defaultTo("TextNormal", props), exp.value)>>
     ELSE IF exp.symbolType \in {"Op", "Bin", "Rel"} THEN
       <<createNode("box", <<>>, <<
           createNode("boxPr", <<>>, <<createNodeWithVal("opEmu", <<"o", "n">>, <<>>)>>),
           createNode("e", <<>>, <<str(defaultTo("TextNormal", props), exp.value)>>)>>)>>
     ELSE <<str(defaultTo("TextNormal", props), exp.value)>>

showUnder(props, exp) ==
  LET tunder == IF exp.under.type = "ESymbol"
                  THEN exp.under.symbolType = "TUnder" ELSE FALSE
  IN IF tunder /\ isBarChar(exp.under.value) THEN
       <<createNode("bar", <<>>, <<
           createNode("barPr", <<>>, <<createNodeWithVal("pos", <<"b", "o", "t">>, <<>>)>>),
           createNode("e", <<>>, showExp(props, exp.base))>>)>>
     ELSE IF tunder THEN
       <<createNode("groupChr", <<>>, <<
           createNode("groupChrPr", <<>>, <<
             createNodeWithVal("chr", exp.under.value, <<>>),
             createNodeWithVal("pos", <<"b", "o", "t">>, <<>>),
             createNodeWithVal("vertJc", <<"t", "o", "p">>, <<>>)>>),
           createNode("e", <<>>, showExp(props, exp.base))>>)>>
     ELSE <<createNode("limLow", <<>>, <<
              createNode("e", <<>>, showExp(props, exp.base)),
              createNode("lim", <<>>, showExp(props, exp.under))>>)>>

\* case EOver as it would be if a bar-like character alone, whatever its
\* class, gave the bar construct
showOver_barByCharAlone(props, exp) ==
  LET class == IF exp.over.type = "ESymbol" THEN exp.over.symbolType ELSE "none"
  IN IF class # "none" /\ isBarChar(exp.over.value) THEN
       <<createNode("bar", <<>>, <<
           createNode("barPr", <<>>, <<createNodeWithVal("pos", <<"t", "o", "p">>, <<>>)>>),
           createNode("e", <<>>, showExp(props, exp.base))>>)>>
     ELSE IF class = "Accent" THEN
       <<createNode("acc", <<>>, <<
           createNode("accPr", <<>>, <<createNodeWithVal("chr", exp.over.value, <<>>)>>),
           createNode("e", <<>>, showExp(props, exp.base))>>)>>
     ELSE IF class = "TOver" THEN
       <<createNode("groupChr", <<>>, <<
           createNode("groupChrPr", <<>>, <<
             createNodeWithVal("chr", exp.over.value, <<>>),
             createNodeWithVal("pos", <<"t", "o", "p">>, <<>>),
             createNodeWithVal("vertJc", <<"b", "o", "t">>, <<>>)>>),
           createNode("e", <<>>, showExp(props, exp.base))>>)>>
     ELSE <<createNode("limUpp", <<>>, <<
              createNode("e", <<>>, showExp(props, exp.base)),
              createNode("lim", <<>>, showExp(props, exp.over))>>)>>

showOver(props, exp) ==
  LET class == IF exp.over.type = "ESymbol" THEN exp.over.symbolType ELSE "none"
  IN IF class = "TOver" /\ isBarChar(exp.over.value) THEN
       <<createNode("bar", <<>>, <<
           createNode("barPr", <<>>, <<createNodeWithVal("pos", <<"t", "o", "p">>, <<>>)>>),
           createNode("e", <<>>, showExp(props, exp.base))>>)>>
     ELSE IF class = "Accent" THEN
       <<createNode("acc", <<>>, <<
           createNode("accPr", <<>>, <<createNodeWithVal("chr", exp.over.value, <<>>)>>),
           createNode("e", <<>>, showExp(props, exp.base))>>)>>
     ELSE IF class = "TOver" THEN
       <<createNode("groupChr", <<>>, <<
           createNode("groupChrPr", <<>>, <<
             createNodeWithVal("chr", exp.over.value, <<>>),
             createNodeWithVal("pos", <<"t", "o", "p">>, <<>>),
             createNodeWithVal("vertJc", <<"b", "o", "t">>, <<>>)>>),
           createNode("e", <<>>, showExp(props, exp.base))>>)>>
     ELSE <<createNode("limUpp", <<>>, <<
              createNode("e", <<>>, showExp(props, exp.base)),
              createNode("lim", <<>>, showExp(props, exp.over))>>)>>

\* case EGrouped
showGrouped(props, exp) ==
  LET first == exp.value[1]
      second == exp.value[2]
      symbol == IF first.base.type = "ESymbol" THEN first.base.value ELSE <<>>
  IN IF Len(exp.value) = 0 THEN <<str(props, ZWSP)>>
     ELSE IF Len(exp.value) = 2 /\ first.type = "EUnderover" /\ isNary(first.base)
       THEN <<makeNary(props, <<"u", "n", "d", "O", "v", "r">>, symbol, first.under, first.over, second)>>
     ELSE IF Len(exp.value) = 2 /\ first.type = "ESubsup" /\ isNary(first.base)
       THEN <<makeNary(props, <<"s", "u", "b", "S", "u", "p">>, symbol, first.subscript, first.superscript, second)>>
     ELSE showAll(props, exp.value)

showIdentifier(props, exp) ==
  IF exp.value = <<>> THEN <<str(props, ZWSP)>>
  ELSE IF isUppercaseGreek(exp.value) /\ Len(props) = 0
    THEN <<str(<<createNodeWithVal("sty", <<"p">>, <<>>)>>, exp.value)>>
  ELSE <<str(props, exp.value)>>

showExp(props, exp) ==
  CASE exp.type = "ENumber" -> <<str(props, exp.value)>>
    [] exp.type = "EGrouped" -> showGrouped(props, exp)
    [] exp.type = "EDelimited" -> showDelimited(props, exp)
    [] exp.type = "EIdentifier" -> showIdentifier(props, exp)
    [] exp.type = "EMathOperator" ->
         <<str(<<createNodeWithVal("sty", <<"p">>, <<>>)>> \o props, exp.value)>>
    [] exp.type = "ESymbol" -> showSymbol(props, exp)
    [] exp.type = "ESpace" -> <<str(props, spaceChar(exp.width))>>
    [] exp.type = "EUnder" -> showUnder(props, exp)
    [] exp.type = "EOver" -> showOver(props, exp)
    [] exp.type = "EUnderover" ->
         showExp(props, EOver(exp.convertible,
                              EUnder(exp.convertible, exp.base, exp.under), exp.over))
    [] exp.type = "ESub" ->
         <<createNode("sSub", <<>>, <<
             createNode("e", <<>>, showExp(props, exp.base)),
             createNode("sub", <<>>, showExp(props, exp.subscript))>>)>>
    [] exp.type = "ESuper" ->
         <<createNode("sSup", <<>>, <<
             createNode("e", <<>>, showExp(props, exp.base)),
             createNode("sup", <<>>, showExp(props, exp.superscript))>>)>>
    [] exp.type = "ESubsup" ->
         <<createNode("sSubSup", <<>>, <<
             createNode("e", <<>>, showExp(props, exp.base)),
             createNode("sub", <<>>, showExp(props, exp.subscript)),
             createNode("sup", <<>>, showExp(props, exp.superscript))>>)>>
    [] exp.type = "ESqrt" ->
         <<createNode("rad", <<>>, <<
             createNode("radPr", <<>>, <<createNodeWithVal("degHide", <<"o", "n">>, <<>>)>>),
             createNode("deg", <<>>, <<>>),
             createNode("e", <<>>, showExp(props, exp.value))>>)>>
    [] exp.type = "ERoot" ->
         <<createNode("rad", <<>>, <<
             createNode("deg", <<>>, showExp(props, exp.index)),
             createNode("e", <<>>, showExp(props, exp.base))>>)>>
    [] exp.type = "EFraction" ->
         <<showFraction(props, exp.fractionType, exp.numerator, exp.denominator)>>
    [] exp.type = "EPhantom" ->
         <<createNode("phant", <<>>, <<
             createNode("phantPr", <<>>, <<createNodeWithVal("show", <<"o", "f", "f">>, <<>>)>>),
             createNode("e", <<>>, showExp(props, exp.value))>>)>>
    [] exp.type = "EBoxed" ->
         <<createNode("borderBox", <<>>, <<
             createNode("e", <<>>, showExp(props, exp.value))>>)>>
    [] exp.type = "ECancel" -> <<makeCancel(props, exp.strokeType, exp.value)>>
    [] exp.type = "EScaled" -> showExp(props, exp.value)
    [] exp.type = "EArray" -> <<makeArray(props, exp.alignments, exp.lines)>>
    [] exp.type = "EText" -> <<makeText(exp.textType, exp.value)>>
    [] exp.type = "EStyled" -> showAll(setProps(exp.textType), exp.value)

\* handleDownup: the element the pre-pass puts out for exps[i] when its base
\* is an n-ary operator, `next` being the element after it
downupMerge(exp, next) ==
  CASE exp.type = "EOver" ->
         EGrouped(<<EUnderover(exp.convertible, exp.base, emptyGroup, exp.over), next>>)
    [] exp.type = "EUnder" ->
         EGrouped(<<EUnderover(exp.convertible, exp.base, exp.under, emptyGroup), next>>)
    [] exp.type = "EUnderover" -> EGrouped(<<exp, next>>)
    [] exp.type = "ESub" ->
         EGrouped(<<ESubsup(exp.base, exp.subscript, emptyGroup), next>>)
    [] exp.type = "ESuper" ->
         EGrouped(<<ESubsup(exp.base, emptyGroup, exp.superscript), next>>)
    [] exp.type = "ESubsup" -> EGrouped(<<exp, next>>)

\* the condition of the branches of handleDownup's if-chain
downupApplies(exp) ==
  IF exp.type \in {"EOver", "EUnder", "EUnderover", "ESub", "ESuper", "ESubsup"}
    THEN isNary(exp.base)
    ELSE FALSE

\* handleDownup's loop as it would be without the `i++` of its branches
RECURSIVE handleDownupFrom_keepsNext(_, _, _)
handleDownupFrom_keepsNext(es, i, result) ==
  LET exp == es[i]
      next == IF i + 1 <= Len(es) THEN es[i + 1] ELSE emptyGroup
  IN IF i > Len(es) THEN result
     ELSE IF downupApplies(exp)
       THEN handleDownupFrom_keepsNext(es, i + 1, Append(result, downupMerge(exp, next)))
     ELSE handleDownupFrom_keepsNext(es, i + 1, Append(result, exp))

RECURSIVE handleDownupFrom(_, _, _)
handleDownupFrom(es, i, result) ==
  LET exp == es[i]
      next == IF i + 1 <= Len(es) THEN es[i + 1] ELSE emptyGroup
  IN IF i > Len(es) THEN result
     ELSE IF downupApplies(exp)
       THEN handleDownupFrom(es, i + 2, Append(result, downupMerge(exp, next)))
     ELSE handleDownupFrom(es, i + 1, Append(result, exp))

handleDownup(d, es) == handleDownupFrom(es, 1, <<>>)

\* ------------------------------------------------------------------------
\* Serialization.  The text is a sequence of characters in which a tag name,
\* an attribute name and the indentation of a line are kept whole.
\* ------------------------------------------------------------------------

RECURSIVE replaceAll(_, _, _)
replaceAll(s, char, by) ==
  IF s = <<>> THEN <<>>
  ELSE (IF Head(s) = char THEN by ELSE <<Head(s)>>) \o replaceAll(Tail(s), char, by)

\* escapeXml as it would be if "&" were replaced last
escapeXml_ampLast(s) ==
  replaceAll(replaceAll(replaceAll(replaceAll(replaceAll(s,
    "<", <<"&", "l", "t", ";">>), ">", <<"&", "g", "t", ";">>), "\"", <<"&", "q", "u", "o", "t", ";">>), "'", <<"&", "a", "p", "o", "s", ";">>), "&", <<"&", "a", "m", "p", ";">>)

\* escapeXml as it would be if it replaced nothing
escapeXml_raw(s) == s

escapeXml(s) ==
  replaceAll(replaceAll(replaceAll(replaceAll(replaceAll(s,
    "&", <<"&", "a", "m", "p", ";">>), "<", <<"&", "l", "t", ";">>), ">", <<"&", "g", "t", ";">>), "\"", <<"&", "q", "u", "o", "t", ";">>), "'", <<"&", "a", "p", "o", "s", ";">>)

\* '  '.repeat(indent)
RECURSIVE repeat(_)
repeat(indent) == IF indent = 0 THEN "" ELSE "  " \o repeat(indent - 1)

spaces(indent) == IF indent = 0 THEN <<>> ELSE <<repeat(indent)>>

RECURSIVE attrsToString(_)
attrsToString(attrs) ==
  IF attrs = <<>> THEN <<>>
  ELSE <<" ", Head(attrs)[1], "=", "\"">> \o escapeXml(Head(attrs)[2]) \o <<"\"">>
       \o attrsToString(Tail(attrs))

RECURSIVE nodeToString(_, _)
nodeToString(node, indent) ==
  LET RECURSIVE joined(_)
      joined(cs) ==
        IF cs = <<>> THEN <<>>
        ELSE nodeToString(Head(cs), indent + 1)
             \o (IF Len(cs) > 1 THEN <<"\n">> ELSE <<>>) \o joined(Tail(cs))
      attrs == attrsToString(node.attrs)
      hasOnlyText == IF Len(node.children) = 1 THEN IsText(node.children[1]) ELSE FALSE
  IN IF IsText(node) THEN node.text
     ELSE IF Len(node.children) = 0
       THEN spaces(indent) \o <<"<", node.tag>> \o attrs \o <<"/", ">">>
     ELSE IF hasOnlyText
       THEN spaces(indent) \o <<"<", node.tag>> \o attrs \o <<">">>
            \o escapeXml(node.children[1].text) \o <<"<", "/", node.tag, ">">>
     ELSE spaces(indent) \o <<"<", node.tag>> \o attrs \o <<">", "\n">>
          \o joined(node.children) \o <<"\n">>
          \o spaces(indent) \o <<"<", "/", node.tag, ">">>

DisplayTypes == {"DisplayBlock", "DisplayInline"}

\* writeOMML's local `nodes`
writeNodes(d, es) == showAll(<<>>, handleDownup(d, es))

\* writeOMML's `root` as it would be if the display mode were not looked at
writeRoot_alwaysInline(d, ns) == createNode("oMath", <<>>, ns)

\* writeOMML's local `root`
writeRoot(d, ns) ==
  IF d = "DisplayBlock"
    THEN createNode("oMathPara", <<>>, <<
           createNode("oMathParaPr", <<>>, <<createNodeWithVal("jc", <<"c", "e", "n", "t", "e", "r">>, <<>>)>>),
           createNode("oMath", <<>>, ns)>>)
    ELSE createNode("oMath", <<>>, ns)

writeOMML(d, es) == nodeToString(writeRoot(d, writeNodes(d, es)), 0)

\* readTeX: Parser.parse with its post-pass
readTeX(inp) ==
  LET r == parse(inp)
  IN [r EXCEPT !.exps = IF r.err = NoErr THEN fixBinList(r.exps) ELSE <<>>]

\* ------------------------------------------------------------------------
\* The inputs of the conversion
\* ------------------------------------------------------------------------

MaxToks == 4
MaxRows == 2
MaxCols == 2

RECURSIVE Flatten(_)
Flatten(ws) == IF ws = <<>> THEN <<>> ELSE Head(ws) \o Flatten(Tail(ws))

RECURSIVE Join(_, _)
Join(ws, sep) ==
  IF ws = <<>> THEN <<>>
  ELSE IF Len(ws) = 1 THEN Head(ws)
  ELSE Head(ws) \o sep \o Join(Tail(ws), sep)

Words(lexemes, n) == {Flatten(w) : w \in UNION {[1..k -> lexemes] : k \in 0..n}}

\* groups, bracket arguments, commands with arguments, an unknown command
GroupLexemes ==
  {<<"{">>, <<"}">>, <<"[">>, <<"]">>, <<"x">>, <<"+">>, <<" ">>,
   <<"\\", "f", "r", "a", "c">>, <<"\\", "s", "q", "r", "t">>, <<"\\", "b", "i", "n", "o", "m">>}

GroupInputs == Words(GroupLexemes, MaxToks)

\* a pmatrix environment whose body is rows of one-letter cells
BeginPmatrix == <<"\\", "b", "e", "g", "i", "n", "{", "p", "m", "a", "t", "r", "i", "x", "}">>
EndPmatrix == <<"\\", "e", "n", "d", "{", "p", "m", "a", "t", "r", "i", "x", "}">>
RowSep == <<BS, BS>>
Cells == {<<"a">>, <<"b">>}
MatrixRows == UNION {[1..k -> Cells] : k \in 1..MaxCols}
MatrixBodies == UNION {[1..k -> MatrixRows] : k \in 1..MaxRows}
MatrixSource(body) ==
  BeginPmatrix \o Join([i \in 1..Len(body) |-> Join(body[i], <<"&">>)], RowSep)
  \o EndPmatrix
MatrixInputs == {MatrixSource(body) : body \in MatrixBodies}

In_pmatrix == <<"\\", "b", "e", "g", "i", "n", "{", "p", "m", "a", "t", "r", "i", "x", "}", " ", "a", " ", "&", " ", "b", " ", "\\", "\\", " ", "c", " ", "&", " ", "d", " ", "\\", "e", "n", "d", "{", "p", "m", "a", "t", "r", "i", "x", "}">>
In_frac_open == <<"\\", "f", "r", "a", "c", "{", "1", "}", "{", "2">>
In_frac == <<"\\", "f", "r", "a", "c", "{", "1", "}", "{", "2", "}">>
In_binom == <<"\\", "b", "i", "n", "o", "m", "{", "n", "}", "{", "k", "}">>
In_sum_i == <<"\\", "s", "u", "m", " ", "i">>
In_sum_limits == <<"\\", "s", "u", "m", "_", "{", "i", "=", "1", "}", "^", "{", "n", "}", " ", "i">>
In_overset == <<"\\", "o", "v", "e", "r", "s", "e", "t", "{", "a", "b", "}", "{", "c", "}">>
In_sqrt_open == <<"\\", "s", "q", "r", "t", "[", "2">>
In_frac_brackets == <<"\\", "f", "r", "a", "c", "{", "[", "x", "]", "}", "{", "2", "}">>
In_boxed == <<"\\", "b", "o", "x", "e", "d", "{", "a", "b", "}">>
In_trailing_backslash == <<"x", "\\">>

\* the three fraction commands with short arguments
FracCmds ==
  {<<"\\", "f", "r", "a", "c">>, <<"\\", "t", "f", "r", "a", "c">>, <<"\\", "d", "f", "r", "a", "c">>}
FracArgs == {<<"1">>, <<"2">>, <<"x">>, <<"x", "2">>, <<>>}
FracSource(cmd, a, b) == cmd \o <<"{">> \o a \o <<"}", "{">> \o b \o <<"}">>
FracInputs == {FracSource(c, a, b) : c \in FracCmds, a \in FracArgs, b \in FracArgs}

\* a base with a subscript and a superscript, in either order
ScriptBases == {<<"x">>, <<"1">>, <<"{", "x", "2", "}">>}
ScriptArgs == {<<"2">>, <<"a">>, <<"{", "a", "2", "}">>, <<"{", "}">>, <<" ", "a">>}
SubFirst(base, a, b) == base \o <<"_">> \o a \o <<"^">> \o b
SuperFirst(base, a, b) == base \o <<"^">> \o b \o <<"_">> \o a
In_x_squared == <<"x", "^", "2">>
ScriptInputs ==
  {SubFirst(s, a, b) : s \in ScriptBases, a \in ScriptArgs, b \in ScriptArgs}
  \cup {SuperFirst(s, a, b) : s \in ScriptBases, a \in ScriptArgs, b \in ScriptArgs}
  \cup {In_x_squared}

\* binary-operator symbols inside the constructs that hold sub-expressions:
\* each content is a source text with the elements it is read as
Plus == ESymbol("Bin", <<"+">>)
BinContents ==
  { [src |-> <<"+">>,           elems |-> <<Plus>>],
    [src |-> <<"+", "1">>,      elems |-> <<Plus, ENumber(<<"1">>)>>],
    [src |-> <<"x", "+", "1">>, elems |-> <<EIdentifier(<<"x">>), Plus, ENumber(<<"1">>)>>],
    [src |-> <<"=", "+">>,      elems |-> <<ESymbol("Rel", <<"=">>), Plus>>],
    [src |-> <<"+", "+">>,      elems |-> <<Plus, Plus>>] }
Holders == {"braces", "sqrt", "root", "frac", "left", "cell"}
HolderSource(h, s) ==
  CASE h = "braces" -> <<"{">> \o s \o <<"}">>
    [] h = "sqrt"   -> <<"\\", "s", "q", "r", "t", "{">> \o s \o <<"}">>
    [] h = "root"   -> <<"\\", "s", "q", "r", "t", "[">> \o s \o <<"]", "{", "x", "}">>
    [] h = "frac"   -> <<"\\", "f", "r", "a", "c", "{">> \o s \o <<"}", "{">> \o s \o <<"}">>
    [] h = "left"   -> <<"\\", "l", "e", "f", "t", "(">> \o s \o <<"\\", "r", "i", "g", "h", "t", ")">>
    [] h = "cell"   -> MatrixSource(<<<<s>>>>)
BinInputs == {HolderSource(h, c.src) : h \in Holders, c \in BinContents}

\* sources given as their tokens, and the same sources with white space or
\* a comment line put between two adjacent tokens
Alpha == <<"\\", "a", "l", "p", "h", "a">>
TokenSeqs ==
  { <<<<"x">>, <<"y">>>>,
    <<<<"1">>, <<"+">>, <<"x">>>>,
    <<<<"x">>, <<"+">>, <<"1">>>>,
    <<Alpha, <<"1">>>>,
    <<<<"x">>, <<"^">>, <<"2">>>>,
    <<<<"{">>, <<"x">>, <<"1">>, <<"}">>>>,
    <<<<"\\", "f", "r", "a", "c">>, <<"{">>, <<"1">>, <<"}">>, <<"{">>, <<"x">>, <<"}">>>>,
    <<<<"\\", "l", "e", "f", "t">>, <<"(">>, <<"x">>, <<"\\", "r", "i", "g", "h", "t">>, <<")">>>>,
    <<BeginPmatrix, <<"a">>, <<"&">>, <<"b">>, RowSep, <<"a">>, EndPmatrix>> }
Separators == {<<" ">>, <<"\n">>, <<"%", "c", "\n">>}
Spaced(toks, k, sep) ==
  Flatten(SubSeq(toks, 1, k)) \o sep \o Flatten(SubSeq(toks, k + 1, Len(toks)))
SpacedInputs ==
  UNION { {Flatten(toks)}
          \cup {Spaced(toks, k, sep) : k \in 1..(Len(toks) - 1), sep \in Separators}
          : toks \in TokenSeqs }

\* \left( a \middle D b ... \right C: delimiters as written and the glyph
\* each stands for
Delims ==
  { [src |-> <<"|">>, glyph |-> <<"|">>],
    [src |-> <<"]">>, glyph |-> <<"]">>],
    [src |-> <<".">>, glyph |-> <<>>],
    [src |-> <<"\\", "l", "a", "n", "g", "l", "e">>, glyph |-> <<"U+27E8">>],
    [src |-> <<"\\", "|">>, glyph |-> <<"U+2225">>] }
NoDelim == [src |-> <<>>, glyph |-> <<>>]
Middles == UNION {[1..k -> Delims] : k \in 0..2}
MiddleCmd == <<"\\", "m", "i", "d", "d", "l", "e">>
RECURSIVE MiddleSource(_)
MiddleSource(mids) ==
  IF mids = <<>> THEN <<>>
  ELSE MiddleCmd \o Head(mids).src \o <<"b">> \o MiddleSource(Tail(mids))
DelimitedSource(mids, close) ==
  <<"\\", "l", "e", "f", "t", "(", "a">> \o MiddleSource(mids)
  \o <<"\\", "r", "i", "g", "h", "t">> \o close.src
DelimitedInputs ==
  {DelimitedSource(mids, close) : mids \in Middles, close \in Delims \cup {NoDelim}}

\* environments of each routing, with the bodies of the matrix inputs and
\* an empty body
EnvNames ==
  {<<"m", "a", "t", "r", "i", "x">>, <<"b", "m", "a", "t", "r", "i", "x">>,
   <<"a", "r", "r", "a", "y">>, <<"a", "l", "i", "g", "n">>,
   <<"a", "l", "i", "g", "n", "e", "d">>, <<"e", "q", "n", "a", "r", "r", "a", "y">>}
EnvSource(name, body) ==
  <<"\\", "b", "e", "g", "i", "n", "{">> \o name \o <<"}">>
  \o Join([i \in 1..Len(body) |-> Join(body[i], <<"&">>)], RowSep)
  \o <<"\\", "e", "n", "d", "{">> \o name \o <<"}">>
\* an environment closed by the brace of an enclosing group before any cell
NoRowsSource(name) == <<"{", "\\", "b", "e", "g", "i", "n", "{">> \o name \o <<"}", "}">>
EnvInputs ==
  {EnvSource(name, body) : name \in EnvNames, body \in MatrixBodies \cup {<<>>}}
  \cup {NoRowsSource(name) : name \in EnvNames}

\* environments of one row followed by further expressions
Follows ==
  { [src |-> <<"+", "1">>, elems |-> <<Plus, ENumber(<<"1">>)>>],
    [src |-> <<"x">>,      elems |-> <<EIdentifier(<<"x">>)>>] }
OneRowBodies == {body \in MatrixBodies : Len(body) = 1}
FollowedInputs ==
  {EnvSource(name, body) \o f.src : name \in EnvNames, body \in OneRowBodies, f \in Follows}

NamedInputs ==
  {In_pmatrix, In_frac_open, In_frac, In_binom, In_sum_i, In_sum_limits,
   In_overset, In_sqrt_open, In_frac_brackets, In_boxed, In_trailing_backslash}

Inputs == GroupInputs \cup MatrixInputs \cup NamedInputs \cup FracInputs \cup BinInputs
          \cup SpacedInputs \cup DelimitedInputs \cup EnvInputs
          \cup FollowedInputs           \cup ScriptInputs

\* ------------------------------------------------------------------------
\* latexToOmml: readTeX, then writeOMML on what it returned
\* ------------------------------------------------------------------------

Init ==
  /\ input \in Inputs
  /\ pc = "init"
  /\ exps = <<>>
  /\ ast = <<>>
  /\ err = NoErr
  /\ cursor = 0
  /\ calls = <<>>
  /\ dt = "DisplayBlock"
  /\ nodes = <<>>
  /\ out = <<>>

ReadTeX ==
  /\ pc = "init"
  /\ \E r \in {parse(input)} :
        /\ pc' = IF r.err = NoErr THEN "parsed" ELSE "failed"
        /\ exps' = r.exps
        /\ ast' = IF r.err = NoErr THEN fixBinList(r.exps) ELSE <<>>
        /\ err' = r.err
        /\ cursor' = r.pos
        /\ calls' = r.calls
  /\ UNCHANGED <<input, dt, nodes, out>>

WriteOMML ==
  /\ pc = "parsed"
  /\ \E d \in DisplayTypes :
       \E ns \in {writeNodes(d, ast)} :
         /\ dt' = d
         /\ nodes' = ns
         /\ out' = nodeToString(writeRoot(d, ns), 0)
  /\ pc' = "written"
  /\ UNCHANGED <<input, exps, ast, err, cursor, calls>>

Next == ReadTeX \/ WriteOMML

Spec == Init /\ [][Next]_vars

\* the inputs that take every loop of the parser through several turns
LoopInputs ==
  Words(GroupLexemes, 2) \cup MatrixInputs \cup NamedInputs \cup FracInputs \cup ScriptInputs
  \cup BinInputs \cup SpacedInputs \cup DelimitedInputs \cup EnvInputs

InitLive ==
  /\ input \in LoopInputs
  /\ pc = "init"
  /\ exps = <<>>
  /\ ast = <<>>
  /\ err = NoErr
  /\ cursor = 0
  /\ calls = <<>>
  /\ dt = "DisplayBlock"
  /\ nodes = <<>>
  /\ out = <<>>

\* what Parser.parse gives on each of these inputs
ParseOf == [i \in LoopInputs |-> parse(i)]

\* ReadTeX, with the result of the call taken from ParseOf
ReadTeXOf ==
  /\ pc = "init"
  /\ \E r \in {ParseOf[input]} :
       /\ pc' = IF r.err = NoErr THEN "parsed" ELSE "failed"
       /\ exps' = r.exps
       /\ ast' = IF r.err = NoErr THEN fixBinList(r.exps) ELSE <<>>
       /\ err' = r.err
       /\ cursor' = r.pos
       /\ calls' = r.calls
  /\ UNCHANGED <<input, dt, nodes, out>>

NextLive == ReadTeXOf \/ WriteOMML

\* readTeX is a call: once made, it runs
SpecLive == InitLive /\ [][NextLive]_vars /\ WF_vars(ReadTeXOf)

\* ------------------------------------------------------------------------
\* Properties of readTeX
\* ------------------------------------------------------------------------

Returned == pc \in {"parsed", "written"}
Done == pc # "init"

\* the array a matrix body of one-letter cells stands for
ArrayOf(body) ==
  [i \in 1..Len(body) |-> [j \in 1..Len(body[i]) |-> <<EIdentifier(body[i][j])>>]]

IsDelimitedArray(e) ==
  /\ e.type = "EDelimited"
  /\ Len(e.content) = 1
  /\ e.content[1].type = "Right"
  /\ e.content[1].value.type = "EArray"

\* C1: a pmatrix environment whose body has k rows separated by the double
\* backslash parses to one "(" ")" delimited region wrapping an array of
\* exactly those k rows in source order, with center alignments only; the
\* 2 x 2 example gives 2 rows of 2 cells.
C1_MatrixRows ==
  /\ \A body \in MatrixBodies :
       (Done /\ input = MatrixSource(body)) =>
         /\ Returned
         /\ Len(ast) >= 1
         /\ IsDelimitedArray(ast[1])
         /\ ast[1].open = <<"(">> /\ ast[1].close = <<")">>
         /\ ast[1].content[1].value.lines = ArrayOf(body)
         /\ \A k \in DOMAIN ast[1].content[1].value.alignments :
              ast[1].content[1].value.alignments[k] = "AlignCenter"
  /\ (Done /\ input = In_pmatrix) =>
       /\ Returned
       /\ ast = <<EDelimited(<<"(">>, <<")">>, <<Right(EArray(
                   <<"AlignCenter", "AlignCenter">>,
                   ArrayOf(<< <<"a", "b">>, <<"c", "d">> >>)))>>)>>

InsertAt(s, i, char) == SubSeq(s, 1, i) \o <<char>> \o SubSeq(s, i + 1, Len(s))

Chars(s) == {s[i] : i \in DOMAIN s}

StartsWith(s, prefix) == Len(s) >= Len(prefix) /\ SubSeq(s, 1, Len(prefix)) = prefix

\* the input begins with a group that readTeX enters
EntersBraces(s) ==
  StartsWith(s, <<"{">>) \/ StartsWith(s, <<"\\", "f", "r", "a", "c", "{">>) \/ StartsWith(s, <<"\\", "s", "q", "r", "t", "{">>)
EntersBrackets(s) == StartsWith(s, <<"\\", "s", "q", "r", "t", "[">>)

\* the number of "{" of s that no "}" closes, `depth` being those open so far
RECURSIVE OpenBraces(_, _)
OpenBraces(s, depth) ==
  IF s = <<>> THEN depth
  ELSE IF Head(s) = "{" THEN OpenBraces(Tail(s), depth + 1)
  ELSE IF Head(s) = "}" /\ depth > 0 THEN OpenBraces(Tail(s), depth - 1)
  ELSE OpenBraces(Tail(s), depth)

\* C2 as stated: whenever the input has a brace group that is not closed,
\* readTeX raises, and at the index where the closing character was expected.
C2_AnyUnclosedRaises ==
  (Done /\ OpenBraces(input, 0) > 0) => pc = "failed"

\* C2: when readTeX has entered a brace group or a bracket argument and the
\* input holds no closing character for it, readTeX raises; whenever it
\* raises, the position is a cursor index at which a closing character was
\* expected, so that a closing character put there lets the parse pass that
\* index; for \frac{1}{2 the position is the end of the input.
C2_UnbalancedPosition ==
  /\ (Done /\ EntersBraces(input) /\ "}" \notin Chars(input)) => pc = "failed"
  /\ (Done /\ EntersBrackets(input) /\ "]" \notin Chars(input)) => pc = "failed"
  /\ pc = "failed" =>
       /\ err = cursor
       /\ err \in 1..Len(input)
       /\ peek(input, err) \notin Whitespace
       /\ \E closer \in {"}", "]"} :
            /\ peek(input, err) # closer
            /\ \E r \in {parse(InsertAt(input, err, closer))} :
                 r.err = NoErr \/ r.err > err
  /\ (Done /\ input = In_frac_open) => (pc = "failed" /\ err = Len(In_frac_open))

\* a group was entered, left open, and the error is at the end of the input
C2_Witness ==
  /\ pc = "failed"
  /\ EntersBraces(input)
  /\ "}" \notin Chars(input)
  /\ err = Len(input)
  /\ Len(input) > 6

\* every "{" and "[" of s has its closing character, properly nested
RECURSIVE Balanced(_, _)
Balanced(s, stack) ==
  IF s = <<>> THEN stack = <<>>
  ELSE IF Head(s) \in {"{", "["} THEN Balanced(Tail(s), <<Head(s)>> \o stack)
  ELSE IF Head(s) = "}"
    THEN stack # <<>> /\ Head(stack) = "{" /\ Balanced(Tail(s), Tail(stack))
  ELSE IF Head(s) = "]"
    THEN stack # <<>> /\ Head(stack) = "[" /\ Balanced(Tail(s), Tail(stack))
  ELSE Balanced(Tail(s), stack)

\* C3: for every input in which every "{" has a matching "}" and every "["
\* a matching "]", readTeX returns a sequence and does not raise.
C3_BalancedNeverRaises ==
  (Done /\ Balanced(input, <<>>)) => Returned

\* the commands parseCommand has a rule for
KnownCmds ==
  SymbolCmds \cup TextCmds \cup StyleCmds \cup
  {"\\frac", "\\tfrac", "\\dfrac", "\\sqrt", "\\overset", "\\underset",
   "\\stackrel", "\\left", "\\right", "\\operatorname", "\\boxed",
   "\\phantom", "\\cancel", "\\bcancel", "\\xcancel", "\\begin",
   "\\enspace", "\\hspace"}

\* at cursor p stands a command that no rule recognizes
UnknownCmdAt(inp, p) ==
  /\ readControlSequence(inp, p).cmd # NoCmd
  /\ readControlSequence(inp, p).cmd \notin KnownCmds

\* the cursor after the command at p and the ignorable text behind it
AfterCmd(inp, p) == skipIgnorable(inp, readControlSequence(inp, p).pos)

\* the characters parseOperator or parseEnclosure read a symbol from
SymbolStart == OperatorChars \cup {"'"} \cup {"(", ")", "[", "]", "|"}

HasNode(ns, tag) == \E i \in DOMAIN ns : ns[i].tag = tag

\* the m:val of the child `tag` of node n, <<>> when there is none
ValOf(n, tag) ==
  IF \E i \in DOMAIN n.children : n.children[i].tag = tag
    THEN (CHOOSE c \in {n.children[i] : i \in DOMAIN n.children} : c.tag = tag).attrs[1][2]
    ELSE <<>>

\* C7: converting \sum i gives an n-ary construct whose two limit slots are
\* marked hidden.
C7_BareSumIsNary ==
  (pc = "written" /\ input = In_sum_i) =>
    /\ Len(nodes) = 1
    /\ nodes[1].tag = "m:nary"
    /\ ValOf(nodes[1].children[1], "m:subHide") = <<"o", "n">>
    /\ ValOf(nodes[1].children[1], "m:supHide") = <<"o", "n">>

\* ------------------------------------------------------------------------
\* writeOMML on its own: the Exp trees it is given
\* ------------------------------------------------------------------------

MaxTop == 3

SymbolTypes ==
  {"Ord", "Op", "Bin", "Rel", "Open", "Close", "Pun", "Accent", "Fence",
   "TOver", "TUnder", "Alpha", "BotAccent", "Rad"}

FractionTypes == {"NormalFrac", "DisplayFrac", "InlineFrac", "NoLineFrac"}
StrokeTypes == {"ForwardSlash", "BackSlash", "XSlash"}
Alignments == {"AlignLeft", "AlignCenter", "AlignRight"}

Sum == ESymbol("Op", <<"U+2211">>)
VarX == EIdentifier(<<"x">>)
One == ENumber(<<"1">>)

\* every variant without sub-expressions, with every value of its attributes
Atoms ==
  {One, VarX, EIdentifier(<<"U+0393">>), EMathOperator(<<"s", "i", "n">>),
   EGrouped(<<>>), EDelimited(<<"(">>, <<")">>, <<>>), EDelimited(<<>>, <<>>, <<>>),
   EArray(<<>>, <<>>), EArray(<<"AlignLeft">>, << <<>> >>),
   EArray(<<>>, << << <<>> >> >>), EStyled("TextBold", <<>>)}
  \cup {ESymbol(t, v) : t \in SymbolTypes,
                        v \in {<<"+">>, <<"<">>, <<"_">>, <<"U+2211">>, <<"a", "b">>}}
  \cup {ESpace(w) : w \in {-5, 0, 17, 20, 25, 50, 100, 200}}
  \cup {EText(t, v) : t \in TextTypes, v \in {<<>>, <<"a", "&", "\"">>}}

\* the sub-expressions the compound variants are built over
Kids ==
  {VarX, Sum, EGrouped(<<>>), ESymbol("TOver", <<"U+00AF">>),
   ESymbol("TUnder", <<"_">>), ESymbol("Accent", <<"^">>)}

Compounds(kids) ==
  {ESub(b, s) : b \in kids, s \in kids}
  \cup {ESuper(b, s) : b \in kids, s \in kids}
  \cup {ESubsup(b, s, t) : b \in kids, s \in kids, t \in kids}
  \cup {EOver(c, b, o) : c \in BOOLEAN, b \in kids, o \in kids}
  \cup {EUnder(c, b, u) : c \in BOOLEAN, b \in kids, u \in kids}
  \cup {EUnderover(c, b, u, o) : c \in BOOLEAN, b \in kids, u \in kids, o \in kids}
  \cup {EPhantom(e) : e \in kids}
  \cup {EBoxed(e) : e \in kids}
  \cup {ECancel(s, e) : s \in StrokeTypes, e \in kids}
  \cup {EFraction(t, n, d) : t \in FractionTypes, n \in kids, d \in kids}
  \cup {ERoot(i, b) : i \in kids, b \in kids}
  \cup {ESqrt(e) : e \in kids}
  \cup {EScaled(s, e) : s \in {0, 120}, e \in kids}
  \cup {EGrouped(<<a, b>>) : a \in kids, b \in kids}
  \cup {EStyled(t, <<e>>) : t \in TextTypes, e \in kids}
  \cup {EDelimited(<<"(">>, <<"|">>, <<Right(a), Left(<<"|">>), Right(b)>>) :
          a \in kids, b \in kids}
  \cup {EDelimited(<<"[">>, <<>>, <<Left(<<"|">>), Right(a), Left(<<",">>)>>) : a \in kids}
  \cup {EArray(<<al>>, << << <<a>>, <<>> >>, << <<a, b>> >> >>) :
          al \in Alignments, a \in kids, b \in kids}

\* compounds put inside compounds
Nested ==
  {ESubsup(Sum, VarX, One), EUnderover(TRUE, Sum, VarX, EGrouped(<<>>)),
   EFraction("NormalFrac", VarX, One), EGrouped(<<ESubsup(Sum, VarX, One), VarX>>),
   EStyled("TextItalic", <<VarX, Sum>>), ESqrt(VarX)}

Trees == Atoms \cup Compounds(Kids) \cup Compounds(Nested)

\* the top-level elements of the longer sequences
TopElems ==
  {VarX, Sum, ESubsup(Sum, EGrouped(<<VarX, ESymbol("Rel", <<"=">>), One>>), VarX),
   EUnderover(TRUE, Sum, VarX, One), ESub(Sum, VarX), ESubsup(VarX, One, One),
   EGrouped(<<VarX, One>>)}

\* what readTeX returns for \sum_{i=1}^{n} i
SumLimitsAst ==
  <<ESubsup(Sum, EGrouped(<<EIdentifier(<<"i">>), ESymbol("Rel", <<"=">>), One>>),
            EIdentifier(<<"n">>)),
    EIdentifier(<<"i">>)>>

\* delimited regions with every arrangement of up to MaxItems separators
\* and sub-expressions
MaxItems == 4
DelimItems ==
  {Left(<<"|">>), Left(<<",">>), Right(VarX), Right(One), Right(EGrouped(<<VarX, One>>))}
DelimContents == UNION {[1..k -> DelimItems] : k \in 0..MaxItems}
DelimitedTrees ==
  {EDelimited(<<"(">>, c, l) : c \in {<<")">>, <<>>}, l \in DelimContents}

\* a number inside two styled runs, an identifier inside the outer run only
\* and a number after the runs
StyleChoice == {"TextBold", "TextItalic", "TextSansSerif"}
TwoRuns(outer, inner) == <<EStyled(outer, <<EStyled(inner, <<One>>), VarX>>), One>>
StyledInputs == {TwoRuns(outer, inner) : outer \in StyleChoice, inner \in StyleChoice}

\* attachments of every class of symbol, bar-like or not, to a plain base
AttachSyms ==
  {ESymbol(t, v) : t \in {"TOver", "TUnder", "Accent", "BotAccent", "Ord"},
                   v \in {<<"U+00AF">>, <<"_">>, <<"^">>, <<"U+23DE">>}}
  \cup {VarX}
AttachTrees ==
  {EOver(c, VarX, s) : c \in BOOLEAN, s \in AttachSyms}
  \cup {EUnder(c, VarX, s) : c \in BOOLEAN, s \in AttachSyms}
  \cup {EUnderover(c, VarX, u, o) : c \in BOOLEAN, u \in AttachSyms, o \in AttachSyms}

\* an n-ary operator with one limit, alone, after an element and before an
\* operand
OneLimitKinds == {"ESub", "ESuper", "EUnder", "EOver"}
Limits == {VarX, EGrouped(<<VarX, One>>)}
OneLimit(kind, limit) ==
  CASE kind = "ESub"   -> ESub(Sum, limit)
    [] kind = "ESuper" -> ESuper(Sum, limit)
    [] kind = "EUnder" -> EUnder(TRUE, Sum, limit)
    [] kind = "EOver"  -> EOver(TRUE, Sum, limit)
Befores == {<<>>, <<VarX>>}
Operands == {<<>>, <<One>>, <<VarX, One>>}
OneLimitInputs ==
  {b \o <<OneLimit(kind, l)>> \o a :
     b \in Befores, kind \in OneLimitKinds, l \in Limits, a \in Operands}

\* trees whose delimiters and accent go into attribute values that hold
\* special characters
QuotedTrees ==
  {EDelimited(<<"<">>, <<"&">>, <<Right(VarX)>>),
   EDelimited(<<"\"">>, <<">">>, <<Left(<<"<">>), Right(One)>>),
   EOver(FALSE, VarX, ESymbol("Accent", <<"'">>))}

WriterInputs ==
  {<<e>> : e \in Trees \cup DelimitedTrees}
  \cup UNION {[1..k -> TopElems] : k \in 0..MaxTop}
  \cup {SumLimitsAst}
  \cup StyledInputs
  \cup {<<e>> : e \in AttachTrees}
  \cup OneLimitInputs
  \cup {<<e>> : e \in QuotedTrees}

InitWriter ==
  /\ ast \in WriterInputs
  /\ pc = "parsed"
  /\ input = <<>>
  /\ exps = <<>>
  /\ err = NoErr
  /\ cursor = 0
  /\ calls = <<>>
  /\ dt = "DisplayBlock"
  /\ nodes = <<>>
  /\ out = <<>>

NextWriter == WriteOMML

SpecWriter == InitWriter /\ [][NextWriter]_vars

\* ------------------------------------------------------------------------
\* Properties of writeOMML
\* ------------------------------------------------------------------------

\* the index of the quote that closes the attribute value begun at index i,
\* 0 when there is none
RECURSIVE valueEnd(_, _)
valueEnd(t, i) ==
  IF i > Len(t) \/ t[i] = "<" THEN 0
  ELSE IF t[i] = "\"" THEN i
  ELSE valueEnd(t, i + 1)

\* the entity at index i, <<>> when there is none
EntityAt(t, i) ==
  LET named == {<<"&", "a", "m", "p", ";">>, <<"&", "l", "t", ";">>, <<"&", "g", "t", ";">>, <<"&", "q", "u", "o", "t", ";">>, <<"&", "a", "p", "o", "s", ";">>}
      hits == {e \in named : i + Len(e) - 1 <= Len(t) /\ SubSeq(t, i, i + Len(e) - 1) = e}
  IN IF hits = {} THEN <<>> ELSE CHOOSE e \in hits : TRUE

\* the attributes of a tag from index i on: the index of the "/" or ">" that
\* ends them, 0 when they are not name="value" pairs
RECURSIVE attrsEnd(_, _)
attrsEnd(t, i) ==
  IF i > Len(t) THEN 0
  ELSE IF t[i] \in {"/", ">"} THEN i
  ELSE IF i + 3 <= Len(t) /\ t[i] = " " /\ t[i + 2] = "=" /\ t[i + 3] = "\""
    THEN LET j == valueEnd(t, i + 4)
         IN IF j = 0 THEN 0 ELSE attrsEnd(t, j + 1)
  ELSE 0

\* the indices of the "<" of t, in order
TagStarts(t) ==
  LET at == {i \in DOMAIN t : t[i] = "<"}
  IN [k \in 1..Cardinality(at) |-> CHOOSE i \in at : Cardinality({j \in at : j <= i}) = k]

\* the tag at index i: its kind, its name and the index of its ">"
TagAt(t, i) ==
  IF i + 3 <= Len(t) /\ t[i + 1] = "/"
    THEN [kind |-> IF t[i + 3] = ">" THEN "close" ELSE "bad", name |-> t[i + 2], last |-> i + 3]
  ELSE LET j == IF i + 2 <= Len(t) THEN attrsEnd(t, i + 2) ELSE 0
       IN IF j = 0 THEN [kind |-> "bad", name |-> "", last |-> i]
          ELSE IF t[j] = ">" THEN [kind |-> "open", name |-> t[i + 1], last |-> j]
          ELSE IF j + 1 <= Len(t) /\ t[j + 1] = ">" THEN [kind |-> "empty", name |-> t[i + 1], last |-> j + 1]
          ELSE [kind |-> "bad", name |-> "", last |-> i]

\* the elements open after one more tag, and the number of root elements
TagStep(st, tag) ==
  IF ~st.ok \/ tag.kind = "bad" THEN [st EXCEPT !.ok = FALSE]
  ELSE IF tag.kind = "close"
    THEN IF st.open = <<>> \/ Head(st.open) # tag.name THEN [st EXCEPT !.ok = FALSE]
         ELSE [st EXCEPT !.open = Tail(st.open), !.last = tag.last]
  ELSE IF st.open = <<>> /\ st.roots = 1 THEN [st EXCEPT !.ok = FALSE]
  ELSE [ok |-> TRUE,
        open |-> IF tag.kind = "open" THEN <<tag.name>> \o st.open ELSE st.open,
        roots |-> IF st.open = <<>> THEN 1 ELSE st.roots,
        last |-> tag.last]

\* TagStep over the tags from the k-th on
RECURSIVE TagScan(_, _, _, _)
TagScan(t, starts, k, st) ==
  IF k > Len(starts) \/ ~st.ok THEN st
  ELSE TagScan(t, starts, k + 1, TagStep(st, TagAt(t, starts[k])))

\* t is one element: every tag is closed by its own name in order, nothing
\* stands outside the element, and every "&" begins an entity
WellFormed(t) ==
  /\ t # <<>> /\ t[1] = "<"
  /\ \A i \in DOMAIN t : t[i] = "&" => EntityAt(t, i) # <<>>
  /\ \E st \in {TagScan(t, TagStarts(t), 1,
                        [ok |-> TRUE, open |-> <<>>, roots |-> 0, last |-> 0])} :
       st.ok /\ st.open = <<>> /\ st.roots = 1 /\ st.last = Len(t)

RECURSIVE IsNode(_)
IsNode(n) ==
  /\ DOMAIN n = {"tag", "attrs", "children"}
  /\ \A i \in DOMAIN n.children : IsText(n.children[i]) \/ IsNode(n.children[i])

\* C5: for every display mode and every sequence of Exp trees, of every
\* variant and attribute value, empty groups, empty delimited content and
\* arrays without rows or cells included, writeOMML returns markup text:
\* one element per tree node, every tag closed, every "&" an entity.
C5_WriteIsTotal ==
  pc = "written" =>
    /\ \A i \in DOMAIN nodes : IsNode(nodes[i])
    /\ WellFormed(out)
    /\ out[2] = (IF dt = "DisplayBlock" THEN "m:oMathPara" ELSE "m:oMath")
    /\ (ast = <<>> /\ dt = "DisplayInline") => out = <<"<", "m:oMath", "/", ">">>

\* an array without cells, inside a display paragraph, was written
C5_Witness ==
  /\ pc = "written"
  /\ dt = "DisplayBlock"
  /\ ast = <<EArray(<<>>, << << <<>> >> >>)>>
  /\ Len(out) > 20

\* a sub+superscript or under-over attachment whose base is an n-ary glyph
BothLimits(e) ==
  IF e.type \in {"ESubsup", "EUnderover"} THEN isNary(e.base) ELSE FALSE

LowerOf(e) == IF e.type = "ESubsup" THEN e.subscript ELSE e.under
UpperOf(e) == IF e.type = "ESubsup" THEN e.superscript ELSE e.over

\* element i of es is the operand the merge of element i - 1 has taken
RECURSIVE Taken(_, _)
Taken(es, i) ==
  IF i < 2 THEN FALSE
  ELSE IF downupApplies(es[i - 1]) THEN ~Taken(es, i - 1)
  ELSE FALSE

\* the child `tag` of node n
ChildOf(n, tag) == CHOOSE c \in {n.children[i] : i \in DOMAIN n.children} : c.tag = tag

\* node n is the n-ary construct of the attachment e with operand x
IsNaryOf(n, e, x) ==
  /\ n.tag = "m:nary"
  /\ [i \in DOMAIN n.children |-> n.children[i].tag] = <<"m:naryPr", "m:sub", "m:sup", "m:e">>
  /\ ValOf(n.children[1], "m:chr") = e.base.value
  /\ ValOf(n.children[1], "m:limLoc") =
       (IF e.type = "ESubsup" THEN <<"s", "u", "b", "S", "u", "p">> ELSE <<"u", "n", "d", "O", "v", "r">>)
  /\ n.children[2].children = showExp(<<>>, LowerOf(e))
  /\ n.children[3].children = showExp(<<>>, UpperOf(e))
  /\ n.children[4].children = showExp(<<>>, x)

\* the characters of the text runs under node n, in order
RECURSIVE TextOf(_)
TextOf(n) ==
  LET RECURSIVE texts(_)
      texts(cs) == IF cs = <<>> THEN <<>> ELSE TextOf(Head(cs)) \o texts(Tail(cs))
  IN IF IsText(n) THEN n.text ELSE texts(n.children)

\* C6 as stated: every top-level attachment with both limits on an n-ary
\* glyph that is followed by an element X is written as an n-ary construct
\* with the limits as sub and sup and X as operand.
C6_EveryAttachmentMerges ==
  pc = "written" =>
    \A i \in 1..(Len(ast) - 1) :
      BothLimits(ast[i]) => \E k \in DOMAIN nodes : IsNaryOf(nodes[k], ast[i], ast[i + 1])

\* C6: a top-level attachment with both limits on an n-ary glyph that the
\* merge before it has not taken as operand, followed by an element X, is
\* written as exactly one n-ary construct with the lower limit as sub, the
\* upper limit as sup and X as operand, between what is written for the
\* elements before it and for the elements after X; for \sum_{i=1}^{n} i the
\* limits read i=1 and n and the operand reads i.
C6_MergesWithOperand ==
  /\ pc = "written" =>
       \A i \in 1..(Len(ast) - 1) :
         (BothLimits(ast[i]) /\ ~Taken(ast, i)) =>
           /\ Len(nodes) > Len(writeNodes(dt, SubSeq(ast, 1, i - 1)))
           /\ IsNaryOf(nodes[Len(writeNodes(dt, SubSeq(ast, 1, i - 1))) + 1], ast[i], ast[i + 1])
           /\ nodes = writeNodes(dt, SubSeq(ast, 1, i - 1))
                      \o <<nodes[Len(writeNodes(dt, SubSeq(ast, 1, i - 1))) + 1]>>
                      \o writeNodes(dt, SubSeq(ast, i + 2, Len(ast)))
  /\ (pc = "written" /\ ast = SumLimitsAst) =>
       /\ SumLimitsAst = readTeX(In_sum_limits).exps
       /\ Len(nodes) = 1
       /\ TextOf(ChildOf(nodes[1], "m:sub")) = <<"i", "=", "1">>
       /\ TextOf(ChildOf(nodes[1], "m:sup")) = <<"n">>
       /\ TextOf(ChildOf(nodes[1], "m:e")) = <<"i">>

\* an attachment that is not the first element, not taken by the element
\* before it, was written with the element after it as operand
C6_Witness ==
  /\ pc = "written"
  /\ Len(ast) = 3
  /\ ~downupApplies(ast[1])
  /\ BothLimits(ast[2])
  /\ IsNaryOf(nodes[2], ast[2], ast[3])

\* ------------------------------------------------------------------------
\* fixBinList on its own: the post-pass over every short sequence of
\* symbols of every class, identifiers and numbers
\* ------------------------------------------------------------------------

MaxSeq == 3

FixElems ==
  {ESymbol(c, <<"s">>) : c \in SymbolTypes} \cup {ESymbol("Bin", <<"+">>), VarX, One}

FixInputs == UNION {[1..k -> FixElems] : k \in 0..MaxSeq}

InitFix ==
  /\ exps \in FixInputs
  /\ pc = "fixing"
  /\ input = <<>>
  /\ ast = <<>>
  /\ err = NoErr
  /\ cursor = 0
  /\ calls = <<>>
  /\ dt = "DisplayBlock"
  /\ nodes = <<>>
  /\ out = <<>>

FixBinList ==
  /\ pc = "fixing"
  /\ ast' = fixBinList(exps)
  /\ pc' = "fixed"
  /\ UNCHANGED <<input, exps, err, cursor, calls, dt, nodes, out>>

NextFix == FixBinList

SpecFix == InitFix /\ [][NextFix]_vars

\* the classes after which a binary symbol is reclassified
ForwardClasses == {"Bin", "Op", "Rel", "Open", "Pun"}

\* the classes that reclassify a binary symbol before them
RetroClasses == {"Rel", "Close", "Pun"}

IsOrdOf(e, sym) == e = [sym EXCEPT !.symbolType = "Ord"]

\* C8 as stated: a binary symbol comes out ordinary exactly when it is the
\* first element or the element retained before it is a symbol of class
\* binary, operator, relation, opening delimiter or punctuation.
C8_OrdExactlyAfterForwardClass ==
  pc = "fixed" =>
    \A i \in DOMAIN exps :
      IsSym(exps[i], {"Bin"}) =>
        (IsOrdOf(ast[i], exps[i]) <=> (i = 1 \/ IsSym(ast[i - 1], ForwardClasses)))

\* C8: a binary symbol comes out ordinary exactly when it is the first
\* element, or the element retained before it is a symbol of class binary,
\* operator, relation, opening delimiter or punctuation, or the element after
\* it is a symbol of class relation, closing delimiter or punctuation;
\* otherwise it is kept as it is.  So [relation, binary] gives an ordinary
\* second element, [binary] gives ordinary, and in [ordinary, binary,
\* ordinary] the binary symbol stays binary.
C8_OrdExactlyWhen ==
  pc = "fixed" =>
    /\ Len(ast) = Len(exps)
    /\ \A i \in DOMAIN exps :
         IsSym(exps[i], {"Bin"}) =>
           IF \/ i = 1
              \/ IsSym(ast[i - 1], ForwardClasses)
              \/ (i < Len(exps) /\ IsSym(exps[i + 1], RetroClasses))
             THEN IsOrdOf(ast[i], exps[i])
             ELSE ast[i] = exps[i]
    /\ exps = <<ESymbol("Rel", <<"s">>), ESymbol("Bin", <<"+">>)>>
         => ast = <<ESymbol("Rel", <<"s">>), ESymbol("Ord", <<"+">>)>>
    /\ exps = <<ESymbol("Bin", <<"+">>)>> => ast = <<ESymbol("Ord", <<"+">>)>>
    /\ exps = <<ESymbol("Ord", <<"s">>), ESymbol("Bin", <<"+">>), ESymbol("Ord", <<"s">>)>>
         => ast = exps

\* a binary symbol after punctuation was reclassified, and one between
\* ordinary symbols was kept
C8_Witness ==
  /\ pc = "fixed"
  /\ exps = <<ESymbol("Pun", <<"s">>), ESymbol("Bin", <<"+">>), VarX>>
  /\ ast = <<ESymbol("Pun", <<"s">>), ESymbol("Ord", <<"+">>), VarX>>

\* C9: when a symbol of class relation, closing delimiter or punctuation is
\* reached while the element retained before it is a binary symbol, that
\* element comes out ordinary and the symbol reached is kept unchanged.
C9_RetroactiveOrd ==
  pc = "fixed" =>
    \A i \in 2..Len(exps) :
      (/\ IsSym(exps[i], RetroClasses)
       /\ IsSym(fixBinList(SubSeq(exps, 1, i - 1))[i - 1], {"Bin"})) =>
        /\ IsOrdOf(ast[i - 1], exps[i - 1])
        /\ ast[i] = exps[i]

\* a binary symbol kept after an identifier was reclassified by the closing
\* delimiter after it
C9_Witness ==
  /\ pc = "fixed"
  /\ exps = <<VarX, ESymbol("Bin", <<"+">>), ESymbol("Close", <<"s">>)>>
  /\ ast = <<VarX, ESymbol("Ord", <<"+">>), ESymbol("Close", <<"s">>)>>

\* ------------------------------------------------------------------------
\* escapeXml on its own: every short string over the five special
\* characters and the letters of an entity
\* ------------------------------------------------------------------------

MaxStr == 4

EscapeAlphabet == {"&", "<", ">", "\"", "'", "l", "t", ";"}

EscapeInputs == UNION {[1..k -> EscapeAlphabet] : k \in 0..MaxStr}

InitEscape ==
  /\ input \in EscapeInputs
  /\ pc = "escaping"
  /\ exps = <<>>
  /\ ast = <<>>
  /\ err = NoErr
  /\ cursor = 0
  /\ calls = <<>>
  /\ dt = "DisplayBlock"
  /\ nodes = <<>>
  /\ out = <<>>

EscapeXml ==
  /\ pc = "escaping"
  /\ out' = escapeXml(input)
  /\ pc' = "escaped"
  /\ UNCHANGED <<input, exps, ast, err, cursor, calls, dt, nodes>>

NextEscape == EscapeXml

SpecEscape == InitEscape /\ [][NextEscape]_vars

\* the character an entity stands for
EntityChar(e) ==
  CASE e = <<"&", "a", "m", "p", ";">> -> "&"
    [] e = <<"&", "l", "t", ";">> -> "<"
    [] e = <<"&", "g", "t", ";">> -> ">"
    [] e = <<"&", "q", "u", "o", "t", ";">> -> "\""
    [] e = <<"&", "a", "p", "o", "s", ";">> -> "'"

\* t from index i on with every entity replaced by its character, read once
\* from left to right as a reader of the markup does
RECURSIVE UnescapeFrom(_, _)
UnescapeFrom(t, i) ==
  IF i > Len(t) THEN <<>>
  ELSE IF EntityAt(t, i) # <<>>
    THEN <<EntityChar(EntityAt(t, i))>> \o UnescapeFrom(t, i + Len(EntityAt(t, i)))
  ELSE <<t[i]>> \o UnescapeFrom(t, i + 1)

\* C10: for every string over "&", "<", ">", the two quotes and ordinary
\* characters, replacing the entities of escapeXml(s) by their characters
\* gives s back; the escaped text holds none of "<", ">" and the quotes, and
\* every "&" in it begins an entity.
C10_EscapeRoundTrip ==
  pc = "escaped" =>
    /\ UnescapeFrom(out, 1) = input
    /\ \A i \in DOMAIN out :
         /\ out[i] \notin {"<", ">", "\"", "'"}
         /\ out[i] = "&" => EntityAt(out, i) # <<>>

\* a string that already reads as an entity was escaped
C10_Witness ==
  /\ pc = "escaped"
  /\ input = <<"&", "l", "t", ";">>
  /\ out = <<"&", "a", "m", "p", ";", "l", "t", ";">>

\* the math container holding the emitted nodes
MathContainer == [tag |-> "m:oMath", attrs |-> <<>>, children |-> nodes]

\* C11: in block mode the text is the paragraph container, holding the
\* centred justification and then the math container; in inline mode it is
\* the math container alone; the nodes inside the math container are those
\* of the other mode too.
C11_DisplayWrapping ==
  pc = "written" =>
    /\ dt = "DisplayBlock" =>
         out = <<"<", "m:oMathPara", ">", "\n",
                 "  ", "<", "m:oMathParaPr", ">", "\n",
                 "    ", "<", "m:jc", " ", "m:val", "=", "\"", "c", "e", "n", "t", "e", "r", "\"", "/", ">", "\n",
                 "  ", "<", "/", "m:oMathParaPr", ">", "\n">>
               \o nodeToString(MathContainer, 1)
               \o <<"\n", "<", "/", "m:oMathPara", ">">>
    /\ dt = "DisplayInline" => out = nodeToString(MathContainer, 0)
    /\ \A d \in DisplayTypes : nodes = writeNodes(d, ast)

\* a fraction was written in block mode
C11_Witness ==
  /\ pc = "written"
  /\ dt = "DisplayBlock"
  /\ ast = <<EFraction("NormalFrac", VarX, VarX)>>
  /\ out[2] = "m:oMathPara"

\* ------------------------------------------------------------------------
\* Properties of fractions, scripts and groups
\* ------------------------------------------------------------------------

\* the rendering style a fraction command stands for
FracTypeOf(cmd) ==
  CASE cmd = <<"\\", "f", "r", "a", "c">> -> "NormalFrac"
    [] cmd = <<"\\", "t", "f", "r", "a", "c">> -> "InlineFrac"
    [] cmd = <<"\\", "d", "f", "r", "a", "c">> -> "DisplayFrac"

\* the tree an argument of FracArgs stands for
FracArgTree(a) ==
  CASE a = <<"1">> -> ENumber(<<"1">>)
    [] a = <<"2">> -> ENumber(<<"2">>)
    [] a = <<"x">> -> EIdentifier(<<"x">>)
    [] a = <<"x", "2">> -> EGrouped(<<EIdentifier(<<"x">>), ENumber(<<"2">>)>>)
    [] a = <<>> -> EGrouped(<<>>)

\* the style attribute of a rendering style
FracStyleOf(fractionType) ==
  CASE fractionType \in {"NormalFrac", "DisplayFrac"} -> <<"b", "a", "r">>
    [] fractionType = "InlineFrac" -> <<"l", "i", "n">>
    [] fractionType = "NoLineFrac" -> <<"n", "o", "B", "a", "r">>

\* node n is the fraction construct of style `style` over the trees num, den
IsFracOf(n, style, num, den) ==
  /\ n.tag = "m:f"
  /\ [i \in DOMAIN n.children |-> n.children[i].tag] = <<"m:fPr", "m:num", "m:den">>
  /\ n.children[1].children = <<[tag |-> "m:type", attrs |-> <<<<"m:val", style>>>>, children |-> <<>>]>>
  /\ n.children[2].children = showExp(<<>>, num)
  /\ n.children[3].children = showExp(<<>>, den)

\* C12: a fraction command with arguments A and B parses to the fraction
\* node of the command's rendering style with numerator A and denominator B;
\* a fraction is written with style bar for the normal and display styles,
\* lin for the inline style and noBar for the no-line style; \frac{1}{2}
\* gives style bar, numerator text 1 and denominator text 2.
C12_FractionStyle ==
  /\ Returned =>
       \A c \in FracCmds : \A a \in FracArgs : \A b \in FracArgs :
         input = FracSource(c, a, b) =>
           ast = <<EFraction(FracTypeOf(c), FracArgTree(a), FracArgTree(b))>>
  /\ (pc = "written" /\ input \in FracInputs) =>
       /\ Len(nodes) = 1
       /\ IsFracOf(nodes[1], FracStyleOf(ast[1].fractionType), ast[1].numerator, ast[1].denominator)
       /\ \A ft \in FractionTypes :
            IsFracOf(showFraction(<<>>, ft, ast[1].numerator, ast[1].denominator),
                     FracStyleOf(ft), ast[1].numerator, ast[1].denominator)
  /\ (pc = "written" /\ input = In_frac) =>
       /\ ValOf(ChildOf(nodes[1], "m:fPr"), "m:type") = <<"b", "a", "r">>
       /\ TextOf(ChildOf(nodes[1], "m:num")) = <<"1">>
       /\ TextOf(ChildOf(nodes[1], "m:den")) = <<"2">>

\* \tfrac{x2}{1} was parsed and written in the inline style
C12_Witness ==
  /\ pc = "written"
  /\ input = FracSource(<<"\\", "t", "f", "r", "a", "c">>, <<"x", "2">>, <<"1">>)
  /\ ast[1].fractionType = "InlineFrac"
  /\ ValOf(ChildOf(nodes[1], "m:fPr"), "m:type") = <<"l", "i", "n">>

\* the tree a base of ScriptBases or an argument of ScriptArgs stands for
ScriptTree(s) ==
  CASE s = <<"x">> -> EIdentifier(<<"x">>)
    [] s = <<"1">> -> ENumber(<<"1">>)
    [] s = <<"2">> -> ENumber(<<"2">>)
    [] s \in {<<"a">>, <<" ", "a">>} -> EIdentifier(<<"a">>)
    [] s = <<"{", "x", "2", "}">> -> EGrouped(<<EIdentifier(<<"x">>), ENumber(<<"2">>)>>)
    [] s = <<"{", "a", "2", "}">> -> EGrouped(<<EIdentifier(<<"a">>), ENumber(<<"2">>)>>)
    [] s = <<"{", "}">> -> EGrouped(<<>>)

Progress ==
  Done =>
    /\ cursor \in 0..Len(input)
    /\ err # NoErr => err \in 0..Len(input)
    /\ \A i \in DOMAIN calls : calls[i] \in 0..(Len(input) - 1)
    /\ \A i \in DOMAIN calls : \A j \in DOMAIN calls : i < j => calls[i] < calls[j]
    /\ Len(exps) <= Len(calls)

GroupOf(es) == IF Len(es) = 1 THEN es[1] ELSE EGrouped(es)

\* the tree a holder of sub-expressions is read as when its elements are es
HolderTree(h, es) ==
  CASE h = "braces" -> GroupOf(es)
    [] h = "sqrt"   -> ESqrt(GroupOf(es))
    [] h = "root"   -> ERoot(GroupOf(es), EIdentifier(<<"x">>))
    [] h = "frac"   -> EFraction("NormalFrac", GroupOf(es), GroupOf(es))
    [] h = "left"   -> EDelimited(<<"(">>, <<")">>, [i \in 1..Len(es) |-> Right(es[i])])
    [] h = "cell"   ->
         EDelimited(<<"(">>, <<")">>, <<Right(EArray(<<"AlignCenter">>, <<<<es>>>>))>>)

\* C15 as stated: the post-pass works on the top-level sequence only, so a
\* binary-operator symbol inside a braced group, a fraction or root
\* argument, a delimited region or an array cell keeps its class whatever
\* precedes it there
C15_NestedBinKept ==
  Returned =>
    \A h \in Holders : \A c \in BinContents :
      input = HolderSource(h, c.src) => ast = <<HolderTree(h, c.elems)>>

\* C15: a binary-operator symbol inside a fraction or root argument, a
\* delimited region, an array cell or a braced group of two or more
\* elements keeps its class whatever precedes it there; \sqrt{x+1} is a
\* root over the group x, +, 1 and \sqrt{+1} keeps its + binary.  A braced
\* group of one element at the top level is replaced by that element, which
\* the post-pass then reclassifies as an element of the top-level sequence
C15_NestedBinKeptUnlessUnwrapped ==
  Returned =>
    \A h \in Holders : \A c \in BinContents :
      input = HolderSource(h, c.src) =>
        IF h = "braces" /\ Len(c.elems) = 1
          THEN ast = <<ESymbol("Ord", <<"+">>)>>
          ELSE ast = <<HolderTree(h, c.elems)>>

\* a root whose argument begins with a binary-operator symbol was read
C15_Witness ==
  /\ pc \in {"parsed", "written"}
  /\ input = HolderSource("sqrt", <<"+", "1">>)
  /\ ast = <<ESqrt(EGrouped(<<Plus, ENumber(<<"1">>)>>))>>

\* ------------------------------------------------------------------------
\* Properties of white space, delimited regions and arrays

\* C16: white space and comments can be skipped at any point: putting white
\* space or a comment line between two adjacent tokens of an input does not
\* change what readTeX returns
C16_SpacingIgnored ==
  Done =>
    \A toks \in TokenSeqs : \A k \in 1..(Len(toks) - 1) : \A sep \in Separators :
      input = Spaced(toks, k, sep) =>
        \E r \in {readTeX(Flatten(toks))} : err = r.err /\ ast = r.exps

\* the content of \left( a \middle D b ... \right: one separator item for
\* each \middle, between the expressions
RECURSIVE MiddleContent(_)
MiddleContent(mids) ==
  IF mids = <<>> THEN <<>>
  ELSE <<Left(Head(mids).glyph), Right(EIdentifier(<<"b">>))>> \o MiddleContent(Tail(mids))

DelimitedTree(mids, close) ==
  EDelimited(<<"(">>, close.glyph, <<Right(EIdentifier(<<"a">>))>> \o MiddleContent(mids))

\* C17: in a \left ... \right region every \middle followed by a delimiter
\* appends one separator item and the region goes on; the region is closed
\* by \right; without a delimiter after \right the closing delimiter is the
\* empty string
C17_MiddleSeparates ==
  Returned =>
    \A mids \in Middles : \A close \in Delims \cup {NoDelim} :
      input = DelimitedSource(mids, close) => ast = <<DelimitedTree(mids, close)>>

\* ------------------------------------------------------------------------
\* Properties of the delimiter construct

IsRight(item) == item.type = "Right"

\* the places of a content where a run of sub-expression items begins
RunStarts(content) ==
  {i \in DOMAIN content : IsRight(content[i]) /\ (i = 1 \/ ~IsRight(content[i - 1]))}

\* the place where the run that begins at i ends
RunEnd(content, i) ==
  CHOOSE j \in i..Len(content) :
    /\ \A m \in i..j : IsRight(content[m])
    /\ j = Len(content) \/ ~IsRight(content[j + 1])

\* the place where the k-th run begins
KthRun(content, k) ==
  CHOOSE i \in RunStarts(content) : Cardinality({s \in RunStarts(content) : s < i}) = k - 1

\* the sub-expressions of the k-th run, in their order
RunOf(content, k) ==
  LET i == KthRun(content, k)
  IN [m \in 1..(RunEnd(content, i) - i + 1) |-> content[i + m - 1].value]

\* the glyph of the first separator item, empty without one
FirstSeparator(content) ==
  IF \A i \in DOMAIN content : IsRight(content[i]) THEN <<>>
  ELSE content[CHOOSE i \in DOMAIN content :
                 ~IsRight(content[i]) /\ \A m \in 1..(i - 1) : IsRight(content[m])].value

\* C18: a delimited region is written as one delimiter construct: its
\* properties give the opening glyph, the first separator's glyph (empty
\* without a separator) and the closing glyph, and it has one child group
\* for each maximal run of sub-expression items between separators, holding
\* the nodes of that run's sub-expressions in their order
C18_DelimiterConstruct ==
  pc = "written" /\ Len(ast) = 1 /\ ast[1] \in DelimitedTrees =>
    LET exp == ast[1]
        runs == Cardinality(RunStarts(exp.content))
    IN /\ Len(nodes) = 1
       /\ nodes[1].tag = "m:d"
       /\ nodes[1].attrs = <<>>
       /\ Len(nodes[1].children) = 1 + runs
       /\ nodes[1].children[1] =
            [tag |-> "m:dPr", attrs |-> <<>>, children |-> <<
               [tag |-> "m:begChr", attrs |-> << <<"m:val", exp.open>> >>, children |-> <<>>],
               [tag |-> "m:sepChr", attrs |-> << <<"m:val", FirstSeparator(exp.content)>> >>,
                children |-> <<>>],
               [tag |-> "m:endChr", attrs |-> << <<"m:val", exp.close>> >>, children |-> <<>>],
               [tag |-> "m:grow", attrs |-> <<>>, children |-> <<>>]>>]
       /\ \A k \in 1..runs :
            nodes[1].children[1 + k] =
              [tag |-> "m:e", attrs |-> <<>>,
               children |-> showAll(<<>>, RunOf(exp.content, k))]

\* a region with a separator between two runs, the second of two items,
\* was written
C18_Witness ==
  /\ pc = "written"
  /\ ast = <<EDelimited(<<"(">>, <<")">>,
               <<Right(VarX), Left(<<",">>), Right(One), Right(EGrouped(<<VarX, One>>))>>)>>
  /\ Len(nodes[1].children) = 3

\* ------------------------------------------------------------------------
\* Properties of arrays

\* the expression and every expression below it
RECURSIVE SubTrees(_)
SubTrees(e) ==
  {e} \cup
  CASE e.type \in {"EGrouped", "EStyled"} ->
         UNION {SubTrees(e.value[i]) : i \in DOMAIN e.value}
    [] e.type \in {"EPhantom", "EBoxed", "ECancel", "ESqrt", "EScaled"} -> SubTrees(e.value)
    [] e.type = "ESub" -> SubTrees(e.base) \cup SubTrees(e.subscript)
    [] e.type = "ESuper" -> SubTrees(e.base) \cup SubTrees(e.superscript)
    [] e.type = "ESubsup" ->
         SubTrees(e.base) \cup SubTrees(e.subscript) \cup SubTrees(e.superscript)
    [] e.type = "EOver" -> SubTrees(e.base) \cup SubTrees(e.over)
    [] e.type = "EUnder" -> SubTrees(e.base) \cup SubTrees(e.under)
    [] e.type = "EUnderover" -> SubTrees(e.base) \cup SubTrees(e.under) \cup SubTrees(e.over)
    [] e.type = "EFraction" -> SubTrees(e.numerator) \cup SubTrees(e.denominator)
    [] e.type = "ERoot" -> SubTrees(e.index) \cup SubTrees(e.base)
    [] e.type = "EDelimited" ->
         UNION {IF e.content[i].type = "Right" THEN SubTrees(e.content[i].value) ELSE {}
                : i \in DOMAIN e.content}
    [] e.type = "EArray" ->
         UNION {UNION {UNION {SubTrees(e.lines[i][j][k]) : k \in DOMAIN e.lines[i][j]}
                       : j \in DOMAIN e.lines[i]}
                : i \in DOMAIN e.lines}
    [] OTHER -> {}

\* the array nodes of what readTeX returned
ArrayNodes ==
  {e \in UNION {SubTrees(ast[i]) : i \in DOMAIN ast} : e.type = "EArray"}

\* the length of the longest row, 0 without rows
LongestRow(lines) ==
  IF lines = <<>> THEN 0
  ELSE CHOOSE n \in {Len(lines[i]) : i \in DOMAIN lines} :
         \A i \in DOMAIN lines : Len(lines[i]) <= n

AllCenter(n) == [i \in 1..n |-> "AlignCenter"]
RightLeft(n) == [i \in 1..n |-> IF i % 2 = 1 THEN "AlignRight" ELSE "AlignLeft"]

RoutedAsAlign(name) ==
  name \in {<<"a", "l", "i", "g", "n">>, <<"a", "l", "i", "g", "n", "e", "d">>,
            <<"e", "q", "n", "a", "r", "r", "a", "y">>}

\* the array an environment was read as, also inside its delimiters
ArrayRead(e) == IF e.type = "EDelimited" THEN e.content[1].value ELSE e

C19_NoRows ==
  /\ pc \in {"parsed", "written"}
  /\ input = NoRowsSource(<<"m", "a", "t", "r", "i", "x">>)
  /\ ast = <<EArray(<<>>, <<>>)>>

\* ------------------------------------------------------------------------
\* Properties of styled runs

\* C20: a styled run puts its own style properties in front of the list it
\* inherits: a leaf inside two runs is written with the properties of both,
\* the inner run's first, a leaf inside the outer run only with the outer
\* run's, and what follows the runs with the enclosing list
C20_StylesAccumulate ==
  pc = "written" =>
    \A outer \in StyleChoice : \A inner \in StyleChoice :
      ast = TwoRuns(outer, inner) =>
        nodes = showExp(setProps(inner) \o setProps(outer), One)
                \o showExp(setProps(outer), VarX)
                \o showExp(<<>>, One)

\* ------------------------------------------------------------------------
\* Properties of over and under attachments

IsAttachment(e) == e.type \in {"EOver", "EUnder", "EUnderover"}

\* C21: an over or under attachment whose convertible flag is false is not
\* rewritten into the n-ary form: the pre-pass leaves it as it is and the
\* node written for it is no n-ary construct
C21_NonConvertibleKept ==
  pc = "written" /\ Len(ast) >= 1 /\ IsAttachment(ast[1]) /\ ~ast[1].convertible =>
    /\ handleDownup(dt, ast)[1] = ast[1]
    /\ nodes[1].tag # "m:nary"

Elem(tag, children) == [tag |-> tag, attrs |-> <<>>, children |-> children]
Val(tag, v) == [tag |-> tag, attrs |-> << <<"m:val", v>> >>, children |-> <<>>]
Top == <<"t", "o", "p">>
Bot == <<"b", "o", "t">>
BarLike(s) == s.value \in {<<"U+203E">>, <<"U+00AF">>, <<"U+0304">>, <<"U+0333">>, <<"_">>}
ClassOf(s) == IF s.type = "ESymbol" THEN s.symbolType ELSE "none"

\* the construct the claim's wording gives for an attachment symbol: a
\* bar-like character first, whatever its class
StatedConstruct(s, bracketClass, limit) ==
  IF ClassOf(s) # "none" /\ BarLike(s) THEN "m:bar"
  ELSE IF ClassOf(s) = "Accent" THEN "m:acc"
  ELSE IF ClassOf(s) = bracketClass THEN "m:groupChr"
  ELSE limit

\* C22 as stated: for an over (resp. under) attachment the first match of
\* bar-like character, accent class, bracket class decides between the bar,
\* accent and grouping-character constructs, the limit construct being the
\* fallback
C22_FirstMatchByCharacter ==
  pc = "written" /\ Len(ast) = 1 /\ ast[1] \in AttachTrees =>
    /\ ast[1].type = "EOver" =>
         nodes[1].tag = StatedConstruct(ast[1].over, "TOver", "m:limUpp")
    /\ ast[1].type = "EUnder" =>
         nodes[1].tag = StatedConstruct(ast[1].under, "TUnder", "m:limLow")

\* the node of an over attachment of s to what was written as inner
OverNode(inner, s) ==
  IF ClassOf(s) = "TOver" /\ BarLike(s)
    THEN Elem("m:bar", <<Elem("m:barPr", <<Val("m:pos", Top)>>), Elem("m:e", inner)>>)
  ELSE IF ClassOf(s) = "Accent"
    THEN Elem("m:acc", <<Elem("m:accPr", <<Val("m:chr", s.value)>>), Elem("m:e", inner)>>)
  ELSE IF ClassOf(s) = "TOver"
    THEN Elem("m:groupChr",
              <<Elem("m:groupChrPr",
                     <<Val("m:chr", s.value), Val("m:pos", Top), Val("m:vertJc", Bot)>>),
                Elem("m:e", inner)>>)
  ELSE Elem("m:limUpp", <<Elem("m:e", inner), Elem("m:lim", showExp(<<>>, s))>>)

\* the node of an under attachment of s to what was written as inner
UnderNode(inner, s) ==
  IF ClassOf(s) = "TUnder" /\ BarLike(s)
    THEN Elem("m:bar", <<Elem("m:barPr", <<Val("m:pos", Bot)>>), Elem("m:e", inner)>>)
  ELSE IF ClassOf(s) = "TUnder"
    THEN Elem("m:groupChr",
              <<Elem("m:groupChrPr",
                     <<Val("m:chr", s.value), Val("m:pos", Bot), Val("m:vertJc", Top)>>),
                Elem("m:e", inner)>>)
  ELSE Elem("m:limLow", <<Elem("m:e", inner), Elem("m:lim", showExp(<<>>, s))>>)

\* C22: an over attachment is written as a bar on top when its symbol is of
\* the over-bracket class and bar-like, else as an accent when the symbol is
\* of the accent class, else as a grouping character when it is of the
\* over-bracket class, else as an upper limit; an under attachment is
\* written as a bar below when its symbol is of the under-bracket class and
\* bar-like, else as a grouping character when it is of the under-bracket
\* class, else as a lower limit; an under-over attachment is written as the
\* over attachment, with the same flag, of the under attachment of its base
C22_FirstMatchByClass ==
  pc = "written" /\ Len(ast) = 1 /\ ast[1] \in AttachTrees =>
    LET exp == ast[1]
        base == showExp(<<>>, exp.base)
    IN /\ exp.type = "EOver" => nodes = <<OverNode(base, exp.over)>>
       /\ exp.type = "EUnder" => nodes = <<UnderNode(base, exp.under)>>
       /\ exp.type = "EUnderover" =>
            /\ nodes = <<OverNode(<<UnderNode(base, exp.under)>>, exp.over)>>
            /\ nodes = showExp(<<>>, EOver(exp.convertible,
                                 EUnder(exp.convertible, exp.base, exp.under), exp.over))

\* an attachment of a bar-like character of the accent class was written
C22_Witness ==
  /\ pc = "written"
  /\ ast = <<EOver(FALSE, VarX, ESymbol("Accent", <<"U+00AF">>))>>
  /\ nodes[1].tag = "m:acc"

\* ------------------------------------------------------------------------
\* parseNumber on its own: an attempt at every position of every short
\* string of digits, points, blanks and a letter
\* ------------------------------------------------------------------------

MaxNum == 4

NumberAlphabet == {"1", "2", ".", " ", "x"}

NumberInputs == UNION {[1..k -> NumberAlphabet] : k \in 0..MaxNum}

InitNumber ==
  /\ input \in NumberInputs
  /\ pc = "attempt"
  /\ exps = <<>>
  /\ ast = <<>>
  /\ err = NoErr
  /\ cursor \in 0..Len(input)
  /\ calls = <<>>
  /\ dt = "DisplayBlock"
  /\ nodes = <<>>
  /\ out = <<>>

\* one call of parseNumber at the cursor; calls keeps where it began
ParseNumber ==
  /\ pc = "attempt"
  /\ \E r \in {parseNumber(input, cursor)} :
       /\ exps' = IF r.nul THEN <<>> ELSE <<r.val>>
       /\ cursor' = r.pos
  /\ calls' = <<cursor>>
  /\ pc' = "attempted"
  /\ UNCHANGED <<input, ast, err, dt, nodes, out>>

NextNumber == ParseNumber

SpecNumber == InitNumber /\ [][NextNumber]_vars

\* digits with at most one point and at least one digit
IsLiteral(s) ==
  /\ \A i \in DOMAIN s : s[i] \in Digit \cup {"."}
  /\ Cardinality({i \in DOMAIN s : s[i] = "."}) <= 1
  /\ \E i \in DOMAIN s : s[i] \in Digit

\* where the literals that begin after position p end
LiteralEnds(s, p) == {e \in (p + 1)..Len(s) : IsLiteral(SubSeq(s, p + 1, e))}

Longest(ends) == CHOOSE e \in ends : \A f \in ends : f <= e

\* C23: the number read is the longest run of digits with at most one
\* point; a point with no digit next to it is no number: nothing is
\* returned and the cursor is where it was before the attempt
C23_MaximalLiteral ==
  pc = "attempted" =>
    LET p == calls[1]
        q == skipIgnorable(input, p)
        ends == LiteralEnds(input, q)
    IN /\ ends # {} => exps = <<ENumber(SubSeq(input, q + 1, Longest(ends)))>>
       /\ ends = {} => exps = <<>>
       /\ ends = {} /\ peek(input, q) = "." => cursor = p

\* ------------------------------------------------------------------------
\* The objects readTeX works on: parseOperator returns the entry of the
\* operators table itself, the other procedures construct new nodes, and
\* the post-pass works on the references it is given.  Here `nodes` holds
\* every object (the table's entries and the nodes constructed so far),
\* `dt` the references the parse of the latest call returned, `exps` and
\* `ast` what these and the post-pass's result refer to, `out` the result
\* of the first call and `calls` the number of objects before each call.
\* ------------------------------------------------------------------------

MaxCalls == 2

TableKeys == {"+", "-", "=", ","}

TableInputs == UNION {[1..k -> TableKeys \cup {"x"}] : k \in 0..MaxSeq}

Entry(key) == [at |-> "table", k |-> key]
Obj(i) == [at |-> "node", k |-> i]

Deref(h, a) == IF a.at = "table" THEN h.table[a.k] ELSE h.objs[a.k]
DerefAll(h, refs) == [i \in DOMAIN refs |-> Deref(h, refs[i])]

\* the top-level loop on a sequence of one-character tokens: an operator
\* character gives the table's entry, a letter a new identifier node
RECURSIVE parseObjects(_, _, _)
parseObjects(h, toks, refs) ==
  IF toks = <<>> THEN [heap |-> h, refs |-> refs]
  ELSE IF Head(toks) \in TableKeys
    THEN parseObjects(h, Tail(toks), Append(refs, Entry(Head(toks))))
  ELSE parseObjects([h EXCEPT !.objs = Append(@, EIdentifier(<<Head(toks)>>))],
                    Tail(toks), Append(refs, Obj(Len(h.objs) + 1)))

\* fixBinList's loop body as it would be if it set the class of the symbol
\* it was given instead of pushing a copy
fixBinObjectsStep_inPlace(st, a) ==
  LET h == st.heap
      exp == Deref(h, a)
      n == Len(st.result)
      prev == Deref(h, st.result[n])
      set(b) == IF b.at = "table"
                  THEN [h EXCEPT !.table[b.k].symbolType = "Ord"]
                  ELSE [h EXCEPT !.objs[b.k].symbolType = "Ord"]
  IN IF IsSym(exp, {"Bin"}) THEN
       IF n = 0 THEN [heap |-> set(a), result |-> Append(st.result, a)]
       ELSE IF IsSym(prev, {"Bin", "Op", "Rel", "Open", "Pun"})
         THEN [heap |-> set(a), result |-> Append(st.result, a)]
       ELSE [heap |-> h, result |-> Append(st.result, a)]
     ELSE IF IsSym(exp, {"Rel", "Close", "Pun"}) THEN
       IF n > 0 THEN
         IF IsSym(prev, {"Bin"})
           THEN [heap |-> set(st.result[n]), result |-> Append(st.result, a)]
           ELSE [heap |-> h, result |-> Append(st.result, a)]
       ELSE [heap |-> h, result |-> Append(st.result, a)]
     ELSE [heap |-> h, result |-> Append(st.result, a)]

\* fixBinList's loop body on references: `{ ...exp, symbolType: 'Ord' }` is
\* a new object, and the retroactive rule replaces the last slot of result
fixBinObjectsStep(st, a) ==
  LET h == st.heap
      exp == Deref(h, a)
      n == Len(st.result)
      prev == Deref(h, st.result[n])
      fresh == Obj(Len(h.objs) + 1)
      copied(e) == [h EXCEPT !.objs = Append(@, [e EXCEPT !.symbolType = "Ord"])]
  IN IF IsSym(exp, {"Bin"}) THEN
       IF n = 0 THEN [heap |-> copied(exp), result |-> Append(st.result, fresh)]
       ELSE IF IsSym(prev, {"Bin", "Op", "Rel", "Open", "Pun"})
         THEN [heap |-> copied(exp), result |-> Append(st.result, fresh)]
       ELSE [heap |-> h, result |-> Append(st.result, a)]
     ELSE IF IsSym(exp, {"Rel", "Close", "Pun"}) THEN
       IF n > 0 THEN
         IF IsSym(prev, {"Bin"})
           THEN [heap |-> copied(prev),
                 result |-> Append([st.result EXCEPT ![n] = fresh], a)]
           ELSE [heap |-> h, result |-> Append(st.result, a)]
       ELSE [heap |-> h, result |-> Append(st.result, a)]
     ELSE [heap |-> h, result |-> Append(st.result, a)]

RECURSIVE fixBinObjects(_, _)
fixBinObjects(st, refs) ==
  IF refs = <<>> THEN st ELSE fixBinObjects(fixBinObjectsStep(st, Head(refs)), Tail(refs))

InitTable ==
  /\ input \in TableInputs
  /\ pc = "table"
  /\ exps = <<>>
  /\ ast = <<>>
  /\ err = NoErr
  /\ cursor = 0
  /\ calls = <<>>
  /\ dt = <<>>
  /\ nodes = [table |-> [key \in TableKeys |-> operators(<<key>>)], objs |-> <<>>]
  /\ out = <<>>

\* one more call of readTeX on the input
ReadTeXCall ==
  /\ pc = "table"
  /\ Len(calls) < MaxCalls
  /\ \E p \in {parseObjects(nodes, input, <<>>)} :
       \E f \in {fixBinObjects([heap |-> p.heap, result |-> <<>>], p.refs)} :
         /\ dt' = p.refs
         /\ exps' = DerefAll(p.heap, p.refs)
         /\ nodes' = f.heap
         /\ ast' = DerefAll(f.heap, f.result)
         /\ out' = IF calls = <<>> THEN DerefAll(f.heap, f.result) ELSE out
  /\ calls' = Append(calls, Len(nodes.objs))
  /\ UNCHANGED <<input, pc, err, cursor>>

NextTable == ReadTeXCall

SpecTable == InitTable /\ [][NextTable]_vars

\* no entry of the table and no node constructed earlier is changed, the
\* result is that of the post-pass on values, and it is the first call's
TableKept ==
  pc = "table" =>
    /\ \A key \in TableKeys : nodes.table[key] = operators(<<key>>)
    /\ calls # <<>> =>
         /\ DerefAll(nodes, dt) = exps
         /\ ast = fixBinList(exps)
         /\ ast = out

NodesKept ==
  \A i \in 1..Len(nodes.objs) : nodes'.objs[i] = nodes.objs[i]

\* C24: readTeX changes no entry of the symbol table and no node it has
\* constructed: a reclassified symbol is a copy, the table's entry of a
\* binary operator keeps its class over any number of calls, and a later
\* call on the same input returns an equal result
C24_TableAndNodesKept == []TableKept /\ [][NodesKept]_vars

\* the second call has reclassified the table's + by the retroactive rule
\* and the table's entry is still binary
C24_Witness ==
  /\ pc = "table"
  /\ Len(calls) = 2
  /\ input = <<"x", "+", "=">>
  /\ ast[2] = ESymbol("Ord", <<"+">>)
  /\ nodes.table["+"] = ESymbol("Bin", <<"+">>)

\* ------------------------------------------------------------------------
\* Properties of n-ary operators with one limit

EmptyRun == Elem("m:r", <<Elem("m:t", <<Text(ZWSP)>>)>>)
On == <<"o", "n">>
Off == <<"o", "f", "f">>

\* the n-ary construct of the sum sign with one limit written as limit and
\* an operand written as operand
OneLimitNary(kind, limit, operand) ==
  LET lower == kind \in {"ESub", "EUnder"}
  IN Elem("m:nary", <<
       Elem("m:naryPr", <<
         Val("m:chr", <<"U+2211">>),
         Val("m:limLoc", IF kind \in {"ESub", "ESuper"}
                           THEN <<"s", "u", "b", "S", "u", "p">>
                           ELSE <<"u", "n", "d", "O", "v", "r">>),
         Val("m:subHide", IF lower THEN Off ELSE On),
         Val("m:supHide", IF lower THEN On ELSE Off)>>),
       Elem("m:sub", IF lower THEN limit ELSE <<EmptyRun>>),
       Elem("m:sup", IF lower THEN <<EmptyRun>> ELSE limit),
       Elem("m:e", operand)>>)

\* the element the pre-pass puts in the place of the operator and its operand
OneLimitMerged(kind, l, operand) ==
  EGrouped(<<CASE kind = "ESub"   -> ESubsup(Sum, l, emptyGroup)
               [] kind = "ESuper" -> ESubsup(Sum, emptyGroup, l)
               [] kind = "EUnder" -> EUnderover(TRUE, Sum, l, emptyGroup)
               [] kind = "EOver"  -> EUnderover(TRUE, Sum, emptyGroup, l),
             operand>>)

C26_NoMisplacedBin ==
  pc = "fixed" =>
    /\ Len(ast) > 0 => ~IsSym(ast[1], {"Bin"})
    /\ \A i \in 2..Len(ast) :
         IsSym(ast[i], {"Bin"}) => ~IsSym(ast[i - 1], ForwardClasses)
    /\ \A i \in 1..(Len(ast) - 1) :
         IsSym(ast[i], {"Bin"}) => ~IsSym(ast[i + 1], RetroClasses)
    /\ fixBinList(ast) = ast

\* two binary symbols before a relation were both reclassified
C26_Witness ==
  /\ pc = "fixed"
  /\ exps = <<ESymbol("Bin", <<"+">>), ESymbol("Bin", <<"s">>), ESymbol("Rel", <<"s">>)>>
  /\ ast = <<ESymbol("Ord", <<"+">>), ESymbol("Ord", <<"s">>), ESymbol("Rel", <<"s">>)>>

\* ------------------------------------------------------------------------
\* Properties of what follows an environment

\* C27: after an environment with its \end{name} the cursor stands after
\* that \end{name}: an environment alone is read to the end of the input,
\* and the expressions after an environment follow its node in the result
C27_ReadPastEnd ==
  Done =>
    \A name \in EnvNames : \A body \in OneRowBodies :
      /\ input = EnvSource(name, body) => pc # "failed" /\ cursor = Len(input)
      /\ \A f \in Follows :
           input = EnvSource(name, body) \o f.src =>
             /\ pc # "failed"
             /\ Len(ast) = 1 + Len(f.elems)
             /\ ArrayRead(ast[1]).type = "EArray"
             /\ Tail(ast) = f.elems

\* ------------------------------------------------------------------------
\* Properties of consecutive n-ary operators

\* the number of n-ary constructs in node n and below it
RECURSIVE NaryCount(_)
NaryCount(n) ==
  LET RECURSIVE total(_)
      total(cs) == IF cs = <<>> THEN 0 ELSE NaryCount(Head(cs)) + total(Tail(cs))
  IN IF IsText(n) THEN 0
     ELSE (IF n.tag = "m:nary" THEN 1 ELSE 0) + total(n.children)

\* an n-ary glyph with limits that may be written in the n-ary form
HasLimits(e) ==
  /\ downupApplies(e)
  /\ e.type \in {"EOver", "EUnder", "EUnderover"} => e.convertible

\* C28: every top-level element that is an n-ary glyph with limits is
\* written as an n-ary construct, also directly after another such element:
\* there are as many n-ary constructs as such elements at least
C28_EveryOperatorIsNary ==
  pc = "written" =>
    NaryCount([tag |-> "m:oMath", attrs |-> <<>>, children |-> nodes])
      >= Cardinality({i \in DOMAIN ast : HasLimits(ast[i])})

\* ------------------------------------------------------------------------
\* Properties of the text leaves of the markup tree

\* every text leaf at or below n is the only child of its parent
RECURSIVE TextAlone(_)
TextAlone(n) ==
  \A i \in DOMAIN n.children :
    IF IsText(n.children[i]) THEN Len(n.children) = 1 ELSE TextAlone(n.children[i])

\* the number of "<" that the tags of n and of the nodes below it take
RECURSIVE Brackets(_)
Brackets(n) ==
  LET RECURSIVE total(_)
      total(cs) == IF cs = <<>> THEN 0 ELSE Brackets(Head(cs)) + total(Tail(cs))
  IN IF IsText(n) THEN 0
     ELSE (IF Len(n.children) = 0 THEN 1 ELSE 2) + total(n.children)

\* the number of attributes of n and of the nodes below it
RECURSIVE Attributes(_)
Attributes(n) ==
  LET RECURSIVE total(_)
      total(cs) == IF cs = <<>> THEN 0 ELSE Attributes(Head(cs)) + total(Tail(cs))
  IN IF IsText(n) THEN 0 ELSE Len(n.attrs) + total(n.children)

\* the number of places of t that hold c
Count(t, c) == Cardinality({i \in DOMAIN t : t[i] = c})

\* the characters that escapeXml replaces
Specials == {"&", "<", ">", "\"", "'"}

\* the number of special characters in the texts and attribute values of n
\* and of the nodes below it
RECURSIVE SpecialCount(_)
SpecialCount(n) ==
  LET in(s) == Cardinality({i \in DOMAIN s : s[i] \in Specials})
      RECURSIVE total(_)
      total(cs) == IF cs = <<>> THEN 0 ELSE SpecialCount(Head(cs)) + total(Tail(cs))
      RECURSIVE values(_)
      values(as) == IF as = <<>> THEN 0 ELSE in(Head(as)[2]) + values(Tail(as))
  IN IF IsText(n) THEN in(n.text) ELSE values(n.attrs) + total(n.children)

\* C29: in the tree writeOMML builds a text leaf is the only child of its
\* parent, and the output holds no "&", "<", ">" or quote other than those
\* of the markup itself: one "<" and one ">" per tag, two double quotes per
\* attribute, no single quote, and one entity per special character of the
\* texts and attribute values
C29_TextEscaped ==
  pc = "written" =>
    \E root \in {writeRoot(dt, nodes)} :
      /\ TextAlone(root)
      /\ Count(out, "<") = Brackets(root)
      /\ Count(out, ">") = Brackets(root)
      /\ Count(out, "\"") = 2 * Attributes(root)
      /\ Count(out, "'") = 0
      /\ \A i \in DOMAIN out : out[i] = "&" => EntityAt(out, i) # <<>>
      /\ Count(out, "&") = SpecialCount(root)

\* delimiters "<" and "&" were written as attribute values, and the text
\* between them as the only child of its node
C29_Witness ==
  /\ pc = "written"
  /\ ast = <<EDelimited(<<"<">>, <<"&">>, <<Right(VarX)>>)>>
  /\ SpecialCount(writeRoot(dt, nodes)) = 2
  /\ \E i \in DOMAIN out : out[i] = "&" /\ EntityAt(out, i) = <<"&", "l", "t", ";">>
  /\ \E i \in DOMAIN out : out[i] = "&" /\ EntityAt(out, i) = <<"&", "a", "m", "p", ";">>

\* ------------------------------------------------------------------------
\* parseExpr1 and parseExpr on their own: an attempt at every position of
\* short strings of commands, known and unknown, and other lexemes
\* ------------------------------------------------------------------------

MaxAttempt == 2

AttemptLexemes ==
  {<<"\\", "f", "o", "o">>, <<"\\", "r", "i", "g", "h", "t">>,
   <<"\\", "a", "l", "p", "h", "a">>, <<"+">>, <<"x">>, <<"}">>, <<" ">>, <<"&">>}

AttemptInputs == Words(AttemptLexemes, MaxAttempt)

InitAttempt ==
  /\ input \in AttemptInputs
  /\ pc = "attempt"
  /\ exps = <<>>
  /\ ast = <<>>
  /\ err = NoErr
  /\ cursor \in 0..Len(input)
  /\ calls = <<>>
  /\ dt = "DisplayBlock"
  /\ nodes = <<>>
  /\ out = <<>>

\* what a call that began at the cursor and returned r leaves
Attempted(r) ==
  /\ exps' = IF Raised(r) \/ r.nul THEN <<>> ELSE <<r.val>>
  /\ err' = r.err
  /\ cursor' = r.pos
  /\ calls' = <<cursor>>
  /\ pc' = "attempted"
  /\ UNCHANGED <<input, ast, dt, nodes, out>>

\* one call of parseExpr1 at the cursor
ParseExpr1 ==
  /\ pc = "attempt"
  /\ \E r \in {Call("parseExpr1", Null, input, cursor)} : Attempted(r)

\* one call of parseExpr at the cursor
ParseExpr ==
  /\ pc = "attempt"
  /\ \E r \in {Call("parseExpr", Null, input, cursor)} : Attempted(r)

NextAttempt == ParseExpr1 \/ ParseExpr

SpecAttempt == InitAttempt /\ [][NextAttempt]_vars

\* C30: when parseExpr1 or parseExpr returns "no expression here", the
\* cursor is where it was when the attempt began, the blanks and comments
\* that the attempt skipped before its first alternative apart
C30_NothingConsumed ==
  (pc = "attempted" /\ err = NoErr /\ exps = <<>>) =>
    cursor \in {calls[1], skipIgnorable(input, calls[1])}

====
